---- MODULE Spec2Model ----
(***************************************************************************)
(* hc: the persistence store (internal/storage/sqlite.go) and the HTTP     *)
(* adapter in front of it (internal/server/server.go).                     *)
(*                                                                         *)
(* The store is two SQLite tables, folders and requests.  Every action of  *)
(* the model is one HTTP handler of server.go, run from the parsing of the *)
(* path parameter to the response, the calls it makes on the store         *)
(* included.                                                               *)
(***************************************************************************)
EXTENDS Integers, Sequences, FiniteSets, TLC

VARIABLES
  folders,          \* table folders: id -> [name, parent_id, created_at, updated_at]
  requests,         \* table requests: id -> [name, folder_id, method, url, headers, body, created_at, updated_at]
  sqlite_sequence,  \* AUTOINCREMENT counters: [folders |-> n, requests |-> n]
  now,              \* the wall clock CURRENT_TIMESTAMP reads, in seconds
  last,             \* the last handler run: its inputs, the store's outcome, the response
  tx,               \* the transaction WithTx has open: what its connection sees
  calls             \* the CreateFolder calls in progress, one per goroutine

vars == <<folders, requests, sqlite_sequence, now, last, tx, calls>>

-----------------------------------------------------------------------------
(* Bounds *)

MaxTree == 3        \* folder rows ever inserted, SpecFolders
MaxFolders == 2     \* folder rows ever inserted, Spec
MaxRequests == 1    \* request rows ever inserted, Spec and SpecHeaders
MaxTimed == 1       \* folder rows and request rows ever inserted, SpecTime
MaxClock == 2       \* seconds the clock may advance
MaxHeaders == 2     \* members of a headers object on the wire
MaxNamed == 2       \* folder rows ever inserted, SpecFolderList
MaxListed == 2      \* request rows ever inserted, SpecRequestList
MaxTxRows == 2      \* folder rows ever inserted, SpecTx
MaxCreated == 2     \* CreateFolder calls ever begun, SpecConcurrent
MaxKeys == 2        \* entries of the headers of a proxied request, SpecProxyHeaders
MaxHops == 10       \* redirects the servers answer with in a row, SpecProxyExchange
MaxValues == 2      \* values of one header of a response, SpecProxyExchange
MaxReplaced == 3    \* rows inserted, SpecReplace
MaxIds == 2         \* rows of a kind inserted, SpecIds
MaxTimedHops == 4   \* redirects the servers answer with in a row, SpecProxyTimeout

-----------------------------------------------------------------------------
(* Values *)

\* A nil *int (models.Folder.ParentID, models.Request.FolderID) and SQL NULL.
NULL == -1

\* A nil Go error.
NoError == "nil"

FolderNotFound == "folder not found"
RequestNotFound == "request not found"
ForeignKeyFailed == "FOREIGN KEY constraint failed"

\* The connection is opened with sql.Open("sqlite3", dbPath): the DSN sets no
\* _foreign_keys parameter, no PRAGMA foreign_keys statement is executed and
\* the build uses no sqlite_foreign_keys tag, so SQLite keeps its default and
\* does not enforce the FOREIGN KEY clauses of the two tables.
ForeignKeys == FALSE

\* The zero value of models.Folder (time.Time zero is written 0).
ZeroFolder == [id |-> 0, name |-> "", parent_id |-> NULL, created_at |-> 0, updated_at |-> 0]

-----------------------------------------------------------------------------
(* The SQL statements, as the engine executes them *)

DB == [folders |-> folders, requests |-> requests, seq |-> sqlite_sequence]

Restrict(f, S) == [x \in S |-> f[x]]

\* The rows of folders whose parent_id is in S.
Children(f, S) == {x \in DOMAIN f : f[x].parent_id \in S}

\* S with every folder that reaches S through parent_id.
RECURSIVE Closure(_, _)
Closure(f, S) ==
  LET n == S \cup Children(f, S)
  IN IF n = S THEN S ELSE Closure(f, n)

\* FOREIGN KEY (parent_id) REFERENCES folders(id): the check on a written row.
FolderKeyOK(f, ref) == (~ForeignKeys) \/ ref = NULL \/ ref \in DOMAIN f

\* The insert into a table whose id is INTEGER PRIMARY KEY without
\* AUTOINCREMENT: the id is one more than the largest id stored.
insertFolderQuery_MaxRowid(d, name, parent_id, t) ==
  LET Insert(id) ==
        [db |-> [d EXCEPT !.folders = [x \in DOMAIN d.folders \cup {id} |->
                                         IF x = id
                                         THEN [name |-> name, parent_id |-> parent_id,
                                               created_at |-> t, updated_at |-> t]
                                         ELSE d.folders[x]],
                          !.seq.folders = d.seq.folders + 1],
         err |-> NoError, id |-> id]
  IN Insert(Cardinality({x \in DOMAIN d.folders : \E y \in DOMAIN d.folders : y >= x}) + 1)

\* INSERT INTO folders (name, parent_id) VALUES (?, ?)
\* id is AUTOINCREMENT, created_at and updated_at default to CURRENT_TIMESTAMP.
insertFolderQuery(d, name, parent_id, t) ==
  LET id == d.seq.folders + 1
  IN IF ~FolderKeyOK(d.folders, parent_id)
     THEN [db |-> d, err |-> ForeignKeyFailed, id |-> 0]
     ELSE [db |-> [d EXCEPT !.folders = [x \in DOMAIN d.folders \cup {id} |->
                                           IF x = id
                                           THEN [name |-> name, parent_id |-> parent_id,
                                                 created_at |-> t, updated_at |-> t]
                                           ELSE d.folders[x]],
                            !.seq.folders = id],
           err |-> NoError, id |-> id]

\* The update statement with created_at = CURRENT_TIMESTAMP added to its SET list.
updateFolderQuery_SetsCreatedAt(d, name, parent_id, id, t) ==
  IF id \notin DOMAIN d.folders
  THEN [db |-> d, err |-> NoError, rows |-> 0]
  ELSE IF ~FolderKeyOK(d.folders, parent_id)
  THEN [db |-> d, err |-> ForeignKeyFailed, rows |-> 0]
  ELSE [db |-> [d EXCEPT !.folders[id] = [name |-> name, parent_id |-> parent_id,
                                          created_at |-> t, updated_at |-> t]],
        err |-> NoError, rows |-> 1]

\* UPDATE folders SET name = ?, parent_id = ?, updated_at = CURRENT_TIMESTAMP WHERE id = ?
updateFolderQuery(d, name, parent_id, id, t) ==
  IF id \notin DOMAIN d.folders
  THEN [db |-> d, err |-> NoError, rows |-> 0]
  ELSE IF ~FolderKeyOK(d.folders, parent_id)
  THEN [db |-> d, err |-> ForeignKeyFailed, rows |-> 0]
  ELSE [db |-> [d EXCEPT !.folders[id] = [name |-> name, parent_id |-> parent_id,
                                          created_at |-> @.created_at, updated_at |-> t]],
        err |-> NoError, rows |-> 1]

\* DELETE FROM folders WHERE id = ?
\* With foreign keys enforced the delete cascades along folders.parent_id
\* and sets requests.folder_id to NULL for every deleted folder.
deleteFolderQuery(d, id) ==
  IF id \notin DOMAIN d.folders
  THEN [db |-> d, err |-> NoError, rows |-> 0]
  ELSE LET gone == IF ForeignKeys THEN Closure(d.folders, {id}) ELSE {id}
       IN [db |-> [d EXCEPT !.folders = Restrict(d.folders, DOMAIN d.folders \ gone),
                            !.requests = [r \in DOMAIN d.requests |->
                                            IF ForeignKeys /\ d.requests[r].folder_id \in gone
                                            THEN [d.requests[r] EXCEPT !.folder_id = NULL]
                                            ELSE d.requests[r]]],
           err |-> NoError, rows |-> 1]

-----------------------------------------------------------------------------
(* storage.DB: the folder operations *)

\* GetFolder without the sql.ErrNoRows branch: a missing row is no error.
GetFolder_NoRowsIsSuccess(d, id, folder) ==
  IF id \notin DOMAIN d.folders
  THEN [db |-> d, err |-> NoError, out |-> folder]
  ELSE [db |-> d, err |-> NoError,
        out |-> [id |-> id, name |-> d.folders[id].name,
                 parent_id |-> d.folders[id].parent_id,
                 created_at |-> d.folders[id].created_at,
                 updated_at |-> d.folders[id].updated_at]]

\* GetFolder scans the row into *folder; on an error *folder is left as it was.
GetFolder(d, id, folder) ==
  IF id \notin DOMAIN d.folders
  THEN [db |-> d, err |-> FolderNotFound, out |-> folder]
  ELSE [db |-> d, err |-> NoError,
        out |-> [id |-> id, name |-> d.folders[id].name,
                 parent_id |-> d.folders[id].parent_id,
                 created_at |-> d.folders[id].created_at,
                 updated_at |-> d.folders[id].updated_at]]

\* SELECT ... FROM folders ORDER BY name: the orders the engine may return the
\* rows in (the order of rows of equal name is not specified).
Orders(S) == {o \in [1..Cardinality(S) -> S] : \A i, j \in DOMAIN o : i # j => o[i] # o[j]}

\* The names the model uses, in the order of the BINARY collation (memcmp).
NameOrder == <<"B", "a", "b", "r", "s">>
NameIndex(name) == CHOOSE i \in DOMAIN NameOrder : NameOrder[i] = name

selectFoldersQuery_Unordered(d) == Orders(DOMAIN d.folders)

selectFoldersQuery(d) ==
  {o \in Orders(DOMAIN d.folders) :
     \A i, j \in DOMAIN o :
       i < j => NameIndex(d.folders[o[i]].name) <= NameIndex(d.folders[o[j]].name)}

\* A Go slice: nil, or its elements.  GetFolders appends the scanned rows to
\* var folders []models.Folder, which stays nil when there is no row.
NilSlice == [isNil |-> TRUE, elems |-> <<>>]
EmptySlice == [isNil |-> FALSE, elems |-> <<>>]

GetFolders(d, rows) ==
  [db |-> d, err |-> NoError,
   out |-> IF rows = <<>> THEN NilSlice
           ELSE [isNil |-> FALSE,
                 elems |-> [i \in DOMAIN rows |-> GetFolder(d, rows[i], ZeroFolder).out]]]

CreateFolder(d, folder, t) ==
  LET Inserted(result) ==
        IF result.err # NoError
        THEN [db |-> d, err |-> result.err, out |-> folder]
        ELSE GetFolder(result.db, result.id, [folder EXCEPT !.id = result.id])
  IN Inserted(insertFolderQuery(d, folder.name, folder.parent_id, t))

\* UpdateFolder without the rows == 0 branch.
UpdateFolder_IgnoresRowsAffected(d, folder, t) ==
  LET Updated(result) ==
        IF result.err # NoError
        THEN [db |-> d, err |-> result.err, out |-> folder]
        ELSE [db |-> result.db, err |-> NoError, out |-> folder]
  IN Updated(updateFolderQuery(d, folder.name, folder.parent_id, folder.id, t))

UpdateFolder(d, folder, t) ==
  LET Updated(result) ==
        IF result.err # NoError
        THEN [db |-> d, err |-> result.err, out |-> folder]
        ELSE IF result.rows = 0
        THEN [db |-> result.db, err |-> FolderNotFound, out |-> folder]
        ELSE [db |-> result.db, err |-> NoError, out |-> folder]
  IN Updated(updateFolderQuery(d, folder.name, folder.parent_id, folder.id, t))

DeleteFolder(d, id) ==
  LET Deleted(result) ==
        IF result.err # NoError
        THEN [db |-> d, err |-> result.err]
        ELSE IF result.rows = 0
        THEN [db |-> result.db, err |-> FolderNotFound]
        ELSE [db |-> result.db, err |-> NoError]
  IN Deleted(deleteFolderQuery(d, id))

-----------------------------------------------------------------------------
(* Go strings and encoding/json, as serializeHeaders and deserializeHeaders  *)
(* use them.  A string is a sequence of units; a unit is one character, the  *)
(* character U+FFFD ("FFFD") or a byte that is not valid UTF-8 ("xFF").  A   *)
(* text (the headers column, a JSON document) is a string as well.           *)

RuneError == "FFFD"
BadByte == "xFF"

\* The byte order of the units (Go compares strings byte by byte).
Rank(c) ==
  CASE c = "\"" -> 1
    [] c = "\\" -> 2
    [] c = "a" -> 3
    [] c = RuneError -> 4
    [] c = BadByte -> 5
    [] OTHER -> 0

RECURSIVE StrLess(_, _)
StrLess(a, b) ==
  IF a = <<>> THEN b # <<>>
  ELSE IF b = <<>> THEN FALSE
  ELSE IF Head(a) = Head(b) THEN StrLess(Tail(a), Tail(b))
  ELSE Rank(Head(a)) < Rank(Head(b))

\* A Go map[string]string: nil, or a mapping.
NilMap == [isNil |-> TRUE, m |-> <<>>]
MakeMap == [isNil |-> FALSE, m |-> <<>>]
GoMap(m) == [isNil |-> FALSE, m |-> m]
MapSet(m, k, v) == [x \in DOMAIN m \cup {k} |-> IF x = k THEN v ELSE m[x]]

\* The keys of a map in the order json.Marshal writes them: sorted.
RECURSIVE SortedKeys(_)
SortedKeys(S) ==
  IF S = {} THEN <<>>
  ELSE LET k == CHOOSE x \in S : \A y \in S \ {x} : StrLess(x, y)
       IN <<k>> \o SortedKeys(S \ {k})

\* json.Marshal of a string: quoted; the quote and the backslash are escaped
\* and a byte that is not valid UTF-8 is written as the six characters of the escape for U+FFFD.
RECURSIVE EscapeString(_)
EscapeString(s) ==
  IF s = <<>> THEN <<>>
  ELSE LET c == Head(s)
       IN (CASE c = "\"" -> <<"\\", "\"">>
             [] c = "\\" -> <<"\\", "\\">>
             [] c = BadByte -> <<"\\", "u", "f", "f", "f", "d">>
             [] OTHER -> <<c>>) \o EscapeString(Tail(s))

MarshalString(s) == <<"\"">> \o EscapeString(s) \o <<"\"">>

RECURSIVE MarshalMembers(_, _)
MarshalMembers(m, keys) ==
  IF keys = <<>> THEN <<>>
  ELSE MarshalString(Head(keys)) \o <<":">> \o MarshalString(m[Head(keys)])
       \o (IF Tail(keys) = <<>> THEN <<>> ELSE <<",">>)
       \o MarshalMembers(m, Tail(keys))

\* json.Marshal of a map[string]string: null for the nil map.
Marshal(h) ==
  IF h.isNil THEN <<"n", "u", "l", "l">>
  ELSE <<"{">> \o MarshalMembers(h.m, SortedKeys(DOMAIN h.m)) \o <<"}">>

At(s, i) == IF i \in 1..Len(s) THEN s[i] ELSE "EOF"

\* The decoder's scan of a string literal from position i, after the opening
\* quote: the decoded string and the position after the closing quote.
RECURSIVE ScanString(_, _, _)
ScanString(s, i, acc) ==
  LET c == At(s, i)
  IN CASE c = "EOF" -> [ok |-> FALSE, str |-> acc, next |-> i]
       [] c = "\"" -> [ok |-> TRUE, str |-> acc, next |-> i + 1]
       [] c = "\\" ->
            (CASE At(s, i + 1) = "\"" -> ScanString(s, i + 2, Append(acc, "\""))
               [] At(s, i + 1) = "\\" -> ScanString(s, i + 2, Append(acc, "\\"))
               [] At(s, i + 1) = "u" /\ At(s, i + 2) = "f" /\ At(s, i + 3) = "f"
                    /\ At(s, i + 4) = "f" /\ At(s, i + 5) = "d" ->
                    ScanString(s, i + 6, Append(acc, RuneError))
               [] OTHER -> [ok |-> FALSE, str |-> acc, next |-> i])
       [] c = BadByte -> ScanString(s, i + 1, Append(acc, RuneError))
       [] OTHER -> ScanString(s, i + 1, Append(acc, c))

ParseString(s, i) ==
  IF At(s, i) = "\"" THEN ScanString(s, i + 1, <<>>)
  ELSE [ok |-> FALSE, str |-> <<>>, next |-> i]

\* The members of an object from position i; a repeated key overwrites.
RECURSIVE ParseMembers(_, _, _)
ParseMembers(s, i, m) ==
  LET Member(k, v) ==
        IF ~k.ok \/ At(s, k.next) # ":" \/ ~v.ok
        THEN [ok |-> FALSE, m |-> m]
        ELSE IF At(s, v.next) = ","
        THEN ParseMembers(s, v.next + 1, MapSet(m, k.str, v.str))
        ELSE IF At(s, v.next) = "}" /\ v.next = Len(s)
        THEN [ok |-> TRUE, m |-> MapSet(m, k.str, v.str)]
        ELSE [ok |-> FALSE, m |-> m]
      Key(k) == Member(k, ParseString(s, k.next + 1))
  IN Key(ParseString(s, i))

\* json.Unmarshal(text, &headers) with var headers map[string]string (nil):
\* null leaves the map nil, an object makes a map.
Unmarshal(s) ==
  IF s = <<"n", "u", "l", "l">> THEN [ok |-> TRUE, h |-> NilMap]
  ELSE IF s = <<"{", "}">> THEN [ok |-> TRUE, h |-> MakeMap]
  ELSE IF At(s, 1) = "{"
  THEN LET Object(r) == [ok |-> r.ok, h |-> IF r.ok THEN GoMap(r.m) ELSE NilMap]
       IN Object(ParseMembers(s, 2, <<>>))
  ELSE [ok |-> FALSE, h |-> NilMap]

JSONSyntaxError == "invalid character"

\* serializeHeaders without the headers == nil branch.
serializeHeaders_NoNilCheck(headers) ==
  [str |-> Marshal(headers), err |-> NoError]

serializeHeaders(headers) ==
  [str |-> Marshal(IF headers.isNil THEN MakeMap ELSE headers), err |-> NoError]

\* deserializeHeaders with the test of the empty string inverted.
deserializeHeaders_EmptyTestInverted(headersStr) ==
  IF headersStr # <<>>
  THEN [headers |-> MakeMap, err |-> NoError]
  ELSE LET Decoded(r) ==
             IF ~r.ok THEN [headers |-> NilMap, err |-> JSONSyntaxError]
             ELSE [headers |-> r.h, err |-> NoError]
       IN Decoded(Unmarshal(headersStr))

deserializeHeaders(headersStr) ==
  IF headersStr = <<>>
  THEN [headers |-> MakeMap, err |-> NoError]
  ELSE LET Decoded(r) ==
             IF ~r.ok THEN [headers |-> NilMap, err |-> JSONSyntaxError]
             ELSE [headers |-> r.h, err |-> NoError]
       IN Decoded(Unmarshal(headersStr))

-----------------------------------------------------------------------------
(* storage.DB: the request operations *)

\* The zero value of models.Request: Headers is the nil map.
ZeroRequest ==
  [id |-> 0, name |-> "", folder_id |-> NULL, method |-> "", url |-> "",
   headers |-> NilMap, body |-> "", created_at |-> 0, updated_at |-> 0]

\* INSERT INTO requests (name, folder_id, method, url, headers, body) VALUES (?, ?, ?, ?, ?, ?)
insertRequestQuery(d, name, folder_id, method, url, headersJSON, body, t) ==
  LET id == d.seq.requests + 1
  IN IF ~FolderKeyOK(d.folders, folder_id)
     THEN [db |-> d, err |-> ForeignKeyFailed, id |-> 0]
     ELSE [db |-> [d EXCEPT !.requests = [x \in DOMAIN d.requests \cup {id} |->
                                            IF x = id
                                            THEN [name |-> name, folder_id |-> folder_id,
                                                  method |-> method, url |-> url,
                                                  headers |-> headersJSON, body |-> body,
                                                  created_at |-> t, updated_at |-> t]
                                            ELSE d.requests[x]],
                            !.seq.requests = id],
           err |-> NoError, id |-> id]

\* The update statement keeping the stored value of every column that is
\* given the empty string or NULL.
updateRequestQuery_KeepsOmitted(d, name, folder_id, method, url, headersJSON, body, id, t) ==
  IF id \notin DOMAIN d.requests
  THEN [db |-> d, err |-> NoError, rows |-> 0]
  ELSE [db |-> [d EXCEPT !.requests[id] =
                  [name |-> IF name = "" THEN @.name ELSE name,
                   folder_id |-> IF folder_id = NULL THEN @.folder_id ELSE folder_id,
                   method |-> IF method = "" THEN @.method ELSE method,
                   url |-> IF url = "" THEN @.url ELSE url,
                   headers |-> headersJSON,
                   body |-> IF body = "" THEN @.body ELSE body,
                   created_at |-> @.created_at, updated_at |-> t]],
        err |-> NoError, rows |-> 1]

\* UPDATE requests SET name = ?, folder_id = ?, method = ?, url = ?, headers = ?,
\* body = ?, updated_at = CURRENT_TIMESTAMP WHERE id = ?
updateRequestQuery(d, name, folder_id, method, url, headersJSON, body, id, t) ==
  IF id \notin DOMAIN d.requests
  THEN [db |-> d, err |-> NoError, rows |-> 0]
  ELSE IF ~FolderKeyOK(d.folders, folder_id)
  THEN [db |-> d, err |-> ForeignKeyFailed, rows |-> 0]
  ELSE [db |-> [d EXCEPT !.requests[id] = [name |-> name, folder_id |-> folder_id,
                                           method |-> method, url |-> url,
                                           headers |-> headersJSON, body |-> body,
                                           created_at |-> @.created_at, updated_at |-> t]],
        err |-> NoError, rows |-> 1]

\* DELETE FROM requests WHERE id = ?
deleteRequestQuery(d, id) ==
  IF id \notin DOMAIN d.requests
  THEN [db |-> d, err |-> NoError, rows |-> 0]
  ELSE [db |-> [d EXCEPT !.requests = Restrict(d.requests, DOMAIN d.requests \ {id})],
        err |-> NoError, rows |-> 1]

\* GetRequest scans the row into *request, then decodes the headers column;
\* when the decoding fails the scanned fields stay and Headers is not assigned.
GetRequest(d, id, request) ==
  IF id \notin DOMAIN d.requests
  THEN [db |-> d, err |-> RequestNotFound, out |-> request]
  ELSE LET Scanned(row, h) ==
             [db |-> d, err |-> h.err,
              out |-> [id |-> id, name |-> row.name, folder_id |-> row.folder_id,
                       method |-> row.method, url |-> row.url,
                       headers |-> IF h.err # NoError THEN request.headers ELSE h.headers,
                       body |-> row.body,
                       created_at |-> row.created_at, updated_at |-> row.updated_at]]
       IN Scanned(d.requests[id], deserializeHeaders(d.requests[id].headers))

\* SELECT ... FROM requests ORDER BY updated_at DESC: the orders the engine may
\* return the rows in.
selectRequestsQuery_Ascending(d) ==
  {o \in Orders(DOMAIN d.requests) :
     \A i, j \in DOMAIN o : i < j => d.requests[o[i]].updated_at <= d.requests[o[j]].updated_at}

selectRequestsQuery(d) ==
  {o \in Orders(DOMAIN d.requests) :
     \A i, j \in DOMAIN o : i < j => d.requests[o[i]].updated_at >= d.requests[o[j]].updated_at}

\* The first row whose headers column does not decode, 0 when all decode.
FirstBadRow(d, rows) ==
  IF \E i \in DOMAIN rows : deserializeHeaders(d.requests[rows[i]].headers).err # NoError
  THEN CHOOSE i \in DOMAIN rows :
         /\ deserializeHeaders(d.requests[rows[i]].headers).err # NoError
         /\ \A j \in 1..(i - 1) : deserializeHeaders(d.requests[rows[j]].headers).err = NoError
  ELSE 0

\* fmt.Errorf("failed to deserialize headers: %w", err)
DeserializeFailed == "failed to deserialize headers: invalid character"

GetRequests(d, rows) ==
  IF FirstBadRow(d, rows) # 0
  THEN [db |-> d, err |-> DeserializeFailed, out |-> NilSlice]
  ELSE [db |-> d, err |-> NoError,
        out |-> IF rows = <<>> THEN NilSlice
                ELSE [isNil |-> FALSE,
                      elems |-> [i \in DOMAIN rows |-> GetRequest(d, rows[i], ZeroRequest).out]]]

CreateRequest(d, request, t) ==
  LET Inserted(result) ==
        IF result.err # NoError
        THEN [db |-> d, err |-> result.err, out |-> request]
        ELSE GetRequest(result.db, result.id, [request EXCEPT !.id = result.id])
      Serialized(headersJSON) ==
        IF headersJSON.err # NoError
        THEN [db |-> d, err |-> headersJSON.err, out |-> request]
        ELSE Inserted(insertRequestQuery(d, request.name, request.folder_id, request.method,
                                         request.url, headersJSON.str, request.body, t))
  IN Serialized(serializeHeaders(request.headers))

UpdateRequest(d, request, t) ==
  LET Updated(result) ==
        IF result.err # NoError
        THEN [db |-> d, err |-> result.err, out |-> request]
        ELSE IF result.rows = 0
        THEN [db |-> result.db, err |-> RequestNotFound, out |-> request]
        ELSE [db |-> result.db, err |-> NoError, out |-> request]
      Serialized(headersJSON) ==
        IF headersJSON.err # NoError
        THEN [db |-> d, err |-> headersJSON.err, out |-> request]
        ELSE Updated(updateRequestQuery(d, request.name, request.folder_id, request.method,
                                        request.url, headersJSON.str, request.body,
                                        request.id, t))
  IN Serialized(serializeHeaders(request.headers))

DeleteRequest(d, id) ==
  LET Deleted(result) ==
        IF result.err # NoError
        THEN [db |-> d, err |-> result.err]
        ELSE IF result.rows = 0
        THEN [db |-> result.db, err |-> RequestNotFound]
        ELSE [db |-> result.db, err |-> NoError]
  IN Deleted(deleteRequestQuery(d, id))

-----------------------------------------------------------------------------
(* server.Server: the handlers *)

StatusOK == 200
StatusCreated == 201
StatusNoContent == 204
StatusBadRequest == 400
StatusNotFound == 404
StatusInternalServerError == 500

\* strconv.Atoi(c.Param("id")) on the path parameters the model sends: a
\* decimal digit converts to its value, anything else is an error.
Digits == <<"1", "2", "3", "4", "5", "6", "7", "8", "9">>

Atoi(s) ==
  IF \E i \in DOMAIN Digits : Digits[i] = s
  THEN [n |-> CHOOSE i \in DOMAIN Digits : Digits[i] = s, err |-> FALSE]
  ELSE [n |-> 0, err |-> TRUE]

\* c.JSON(status, map[string]string{"error": message})
ErrorJSON(message) == [type |-> "object", value |-> [error |-> message]]

\* c.JSON(status, v) for a struct v, and c.NoContent(status)
ObjectJSON(v) == [type |-> "object", value |-> v]
NoContent == [type |-> "none", value |-> <<>>]

NoValue == [none |-> TRUE]

\* c.Bind(&folder): the JSON body decoded into a zero models.Folder.
BindFolder(body) ==
  [err |-> body.malformed,
   folder |-> IF body.malformed THEN ZeroFolder
              ELSE [ZeroFolder EXCEPT !.id = body.id, !.name = body.name,
                                      !.parent_id = body.parent_id]]

\* c.Bind(&request): the JSON body decoded into a zero models.Request; the
\* headers member, when the body has one, is decoded by encoding/json.
BindRequest(body) ==
  LET Bound(h) ==
        [err |-> body.malformed \/ ~h.ok,
         request |-> IF body.malformed \/ ~h.ok THEN ZeroRequest
                     ELSE [ZeroRequest EXCEPT !.id = body.id, !.name = body.name,
                                              !.folder_id = body.folder_id,
                                              !.method = body.method, !.url = body.url,
                                              !.headers = h.h, !.body = body.body]]
  IN Bound(IF body.headers.present THEN Unmarshal(body.headers.text)
           ELSE [ok |-> TRUE, h |-> NilMap])

SetDB(d) ==
  /\ folders' = d.folders
  /\ requests' = d.requests
  /\ sqlite_sequence' = d.seq

\* A handler that answered before it called the store.
Rejected(op, id, status, message) ==
  /\ last' = [op |-> op, id |-> id, called |-> FALSE, arg |-> NoValue, err |-> NoError,
              out |-> NoValue, status |-> status, body |-> ErrorJSON(message)]
  /\ UNCHANGED <<folders, requests, sqlite_sequence, tx, calls>>

\* A handler that called the store: r is what the store returned.
Called(op, id, arg, r, out, status, body) ==
  /\ last' = [op |-> op, id |-> id, called |-> TRUE, arg |-> arg, err |-> r.err,
              out |-> out, status |-> status, body |-> body]
  /\ SetDB(r.db)
  /\ UNCHANGED <<tx, calls>>

Tick(dt) ==
  /\ now + dt <= MaxClock
  /\ now' = now + dt

handleCreateFolder(body, dt) ==
  /\ Tick(dt)
  /\ LET Answer(folder, r) ==
           IF r.err # NoError
           THEN Called("createFolder", 0, folder, r, r.out, StatusInternalServerError,
                       ErrorJSON("Failed to create folder"))
           ELSE Called("createFolder", r.out.id, folder, r, r.out, StatusCreated,
                       ObjectJSON(r.out))
         Run(b) ==
           IF b.err
           THEN Rejected("createFolder", 0, StatusBadRequest, "Invalid request body")
           ELSE Answer(b.folder, CreateFolder(DB, b.folder, now + dt))
     IN Run(BindFolder(body))

handleGetFolderByID(idParam) ==
  /\ UNCHANGED now
  /\ LET Answer(id, r) ==
           IF r.err # NoError
           THEN Called("getFolder", id, NoValue, r, r.out, StatusNotFound,
                       ErrorJSON("Folder not found"))
           ELSE Called("getFolder", id, NoValue, r, r.out, StatusOK, ObjectJSON(r.out))
         Run(a) ==
           IF a.err
           THEN Rejected("getFolder", 0, StatusBadRequest, "Invalid folder ID")
           ELSE Answer(a.n, GetFolder(DB, a.n, ZeroFolder))
     IN Run(Atoi(idParam))

handleUpdateFolderByID(idParam, body, dt) ==
  /\ Tick(dt)
  /\ LET Answer(folder, r) ==
           IF r.err # NoError
           THEN Called("updateFolder", folder.id, folder, r, r.out,
                       StatusInternalServerError, ErrorJSON("Failed to update folder"))
           ELSE Called("updateFolder", folder.id, folder, r, r.out, StatusOK,
                       ObjectJSON(folder))
         Update(folder) == Answer(folder, UpdateFolder(DB, folder, now + dt))
         Run(a, b) ==
           IF a.err
           THEN Rejected("updateFolder", 0, StatusBadRequest, "Invalid folder ID")
           ELSE IF b.err
           THEN Rejected("updateFolder", a.n, StatusBadRequest, "Invalid request body")
           ELSE Update([b.folder EXCEPT !.id = a.n])
     IN Run(Atoi(idParam), BindFolder(body))

handleDeleteFolderByID(idParam) ==
  /\ UNCHANGED now
  /\ LET Answer(id, r) ==
           IF r.err # NoError
           THEN Called("deleteFolder", id, NoValue, r, NoValue, StatusInternalServerError,
                       ErrorJSON("Failed to delete folder"))
           ELSE Called("deleteFolder", id, NoValue, r, NoValue, StatusNoContent, NoContent)
         Run(a) ==
           IF a.err
           THEN Rejected("deleteFolder", 0, StatusBadRequest, "Invalid folder ID")
           ELSE Answer(a.n, DeleteFolder(DB, a.n))
     IN Run(Atoi(idParam))

\* c.JSON(status, v) for a slice v
ArrayJSON(v) == [type |-> IF v.isNil THEN "null" ELSE "array", value |-> v.elems]

handleGetFolders(rows) ==
  /\ UNCHANGED now
  /\ rows \in selectFoldersQuery(DB)
  /\ LET Answer(r) ==
           IF r.err # NoError
           THEN Called("getFolders", 0, NoValue, r, r.out, StatusInternalServerError,
                       ErrorJSON("Failed to get folders"))
           ELSE Called("getFolders", 0, NoValue, r, r.out, StatusOK,
                       ArrayJSON(IF r.out.isNil THEN EmptySlice ELSE r.out))
     IN Answer(GetFolders(DB, rows))

handleGetRequests(rows) ==
  /\ UNCHANGED now
  /\ rows \in selectRequestsQuery(DB)
  /\ LET Answer(r) ==
           IF r.err # NoError
           THEN Called("getRequests", 0, NoValue, r, r.out, StatusInternalServerError,
                       ErrorJSON("Failed to get requests"))
           ELSE Called("getRequests", 0, NoValue, r, r.out, StatusOK,
                       ArrayJSON(IF r.out.isNil THEN EmptySlice ELSE r.out))
     IN Answer(GetRequests(DB, rows))

handleCreateRequest(body, dt) ==
  /\ Tick(dt)
  /\ LET Answer(request, r) ==
           IF r.err # NoError
           THEN Called("createRequest", 0, request, r, r.out, StatusInternalServerError,
                       ErrorJSON("Failed to create request"))
           ELSE Called("createRequest", r.out.id, request, r, r.out, StatusCreated,
                       ObjectJSON(r.out))
         Run(b) ==
           IF b.err
           THEN Rejected("createRequest", 0, StatusBadRequest, "Invalid request body")
           ELSE Answer(b.request, CreateRequest(DB, b.request, now + dt))
     IN Run(BindRequest(body))

handleGetRequestByID(idParam) ==
  /\ UNCHANGED now
  /\ LET Answer(id, r) ==
           IF r.err # NoError
           THEN Called("getRequest", id, NoValue, r, r.out, StatusNotFound,
                       ErrorJSON("Request not found"))
           ELSE Called("getRequest", id, NoValue, r, r.out, StatusOK, ObjectJSON(r.out))
         Run(a) ==
           IF a.err
           THEN Rejected("getRequest", 0, StatusBadRequest, "Invalid request ID")
           ELSE Answer(a.n, GetRequest(DB, a.n, ZeroRequest))
     IN Run(Atoi(idParam))

handleUpdateRequestByID(idParam, body, dt) ==
  /\ Tick(dt)
  /\ LET Answer(request, r) ==
           IF r.err # NoError
           THEN Called("updateRequest", request.id, request, r, r.out,
                       StatusInternalServerError, ErrorJSON("Failed to update request"))
           ELSE Called("updateRequest", request.id, request, r, r.out, StatusOK,
                       ObjectJSON(request))
         Update(request) == Answer(request, UpdateRequest(DB, request, now + dt))
         Run(a, b) ==
           IF a.err
           THEN Rejected("updateRequest", 0, StatusBadRequest, "Invalid request ID")
           ELSE IF b.err
           THEN Rejected("updateRequest", a.n, StatusBadRequest, "Invalid request body")
           ELSE Update([b.request EXCEPT !.id = a.n])
     IN Run(Atoi(idParam), BindRequest(body))

handleDeleteRequestByID(idParam) ==
  /\ UNCHANGED now
  /\ LET Answer(id, r) ==
           IF r.err # NoError
           THEN Called("deleteRequest", id, NoValue, r, NoValue, StatusInternalServerError,
                       ErrorJSON("Failed to delete request"))
           ELSE Called("deleteRequest", id, NoValue, r, NoValue, StatusNoContent, NoContent)
         Run(a) ==
           IF a.err
           THEN Rejected("deleteRequest", 0, StatusBadRequest, "Invalid request ID")
           ELSE Answer(a.n, DeleteRequest(DB, a.n))
     IN Run(Atoi(idParam))

-----------------------------------------------------------------------------
(* WithTx: a unit of work fn run in a transaction *)

NoTx == [open |-> FALSE, db |-> [folders |-> <<>>, requests |-> <<>>,
                                 seq |-> [folders |-> 0, requests |-> 0]],
         stmts |-> 0]

BeginFailed == "begin failed"
CommitFailed == "commit failed"
\* The error fn returns in TestWithTx.
ErrTxDone == "sql: transaction has already been committed or rolled back"

\* What WithTx returned: the error, and what fn had done and returned.
Returned(err, fnErr, logged) ==
  last' = [op |-> "withTx", id |-> 0, called |-> TRUE,
           arg |-> [fn |-> fnErr, stmts |-> tx.stmts], err |-> err,
           out |-> [logged |-> logged], status |-> 0, body |-> NoContent]

\* tx, err := db.BeginTx(ctx, nil); when it fails WithTx returns the error
\* and fn is not run.
BeginTx(ok) ==
  /\ ~tx.open
  /\ IF ok
     THEN /\ tx' = [open |-> TRUE, db |-> DB, stmts |-> 0]
          /\ UNCHANGED last
     ELSE /\ Returned(BeginFailed, NoError, FALSE)
          /\ UNCHANGED tx
  /\ UNCHANGED <<folders, requests, sqlite_sequence, now, calls>>

\* fn executes a statement on the transaction: tx.Exec("INSERT INTO folders
\* (name) VALUES (?)", name).  Only the transaction's connection sees the row.
fnExec(name) ==
  /\ tx.open
  /\ tx' = [tx EXCEPT !.db = insertFolderQuery(tx.db, name, NULL, now).db,
                      !.stmts = tx.stmts + 1]
  /\ UNCHANGED <<folders, requests, sqlite_sequence, now, last, calls>>

\* tx.Rollback() keeps what the transaction wrote.
Rollback_KeepsStatements(err, rbOK) ==
  /\ tx.open
  /\ Returned(err, err, ~rbOK)
  /\ SetDB(tx.db)
  /\ tx' = NoTx
  /\ UNCHANGED <<now, calls>>

\* fn returned err: tx.Rollback(), whose own error is logged only, and WithTx
\* returns err.  The connection's view is discarded, sqlite_sequence with it.
Rollback(err, rbOK) ==
  /\ tx.open
  /\ Returned(err, err, ~rbOK)
  /\ tx' = NoTx
  /\ UNCHANGED <<folders, requests, sqlite_sequence, now, calls>>

\* fn returned nil: tx.Commit().  When COMMIT fails the driver rolls the
\* transaction back and WithTx returns the error of Commit.
Commit(ok) ==
  /\ tx.open
  /\ IF ok
     THEN Returned(NoError, NoError, FALSE) /\ SetDB(tx.db)
     ELSE Returned(CommitFailed, NoError, FALSE)
            /\ UNCHANGED <<folders, requests, sqlite_sequence>>
  /\ tx' = NoTx
  /\ UNCHANGED <<now, calls>>

-----------------------------------------------------------------------------
(* CreateFolder run by several goroutines *)

Goroutines == {1, 2}

\* A goroutine's call: where it is (idle, exec, get, done), the folder it was
\* called with and what it has written into it, the AUTOINCREMENT counter
\* when the call began, and the error it returned.
Idle == [pc |-> "idle", arg |-> ZeroFolder, folder |-> ZeroFolder, before |-> 0,
         err |-> NoError]

Begun == Cardinality({g \in Goroutines : calls[g].pc = "exec"})

\* CreateFolder(folder) is called: db.log.Info("Creating folder", ...).
CreateFolderCall(g, folder) ==
  /\ calls[g].pc \in {"idle", "done"}
  /\ calls' = [calls EXCEPT ![g] = [pc |-> "exec", arg |-> folder, folder |-> folder,
                                     before |-> sqlite_sequence.folders, err |-> NoError]]
  /\ UNCHANGED <<folders, requests, sqlite_sequence, now, last, tx>>

\* result, err := db.Exec(insertFolderQuery, folder.Name, folder.ParentID);
\* id, err := result.LastInsertId(); folder.ID = int(id).  The result carries
\* the rowid of the row this statement inserted.
CreateFolderExec(g) ==
  /\ calls[g].pc = "exec"
  /\ LET Inserted(result) ==
           /\ SetDB(result.db)
           /\ calls' = [calls EXCEPT ![g] =
                          IF result.err # NoError
                          THEN [calls[g] EXCEPT !.pc = "done", !.err = result.err]
                          ELSE [calls[g] EXCEPT !.pc = "get", !.folder.id = result.id]]
     IN Inserted(insertFolderQuery(DB, calls[g].folder.name, calls[g].folder.parent_id, now))
  /\ UNCHANGED <<now, last, tx>>

\* The id is read back from the connection pool after the statement: the
\* rowid of the last row any goroutine inserted.
CreateFolderGet_ReadsLatestId(g) ==
  /\ calls[g].pc = "get"
  /\ LET Read(r) == calls' = [calls EXCEPT ![g] = [calls[g] EXCEPT !.pc = "done",
                                                    !.folder = r.out, !.err = r.err]]
     IN Read(GetFolder(DB, sqlite_sequence.folders, calls[g].folder))
  /\ UNCHANGED <<folders, requests, sqlite_sequence, now, last, tx>>

\* return db.GetFolder(folder.ID, folder)
CreateFolderGet(g) ==
  /\ calls[g].pc = "get"
  /\ LET Read(r) == calls' = [calls EXCEPT ![g] = [calls[g] EXCEPT !.pc = "done",
                                                    !.folder = r.out, !.err = r.err]]
     IN Read(GetFolder(DB, calls[g].folder.id, calls[g].folder))
  /\ UNCHANGED <<folders, requests, sqlite_sequence, now, last, tx>>

-----------------------------------------------------------------------------
(* The proxy: proxy.Client over net/http *)

\* Header names and the values of response headers are sequences of
\* characters; the other strings are taken whole.
Lower == <<"a", "b", "c", "d", "e", "f", "g", "h", "i", "j", "k", "l", "m",
           "n", "o", "p", "q", "r", "s", "t", "u", "v", "w", "x", "y", "z">>
Upper == <<"A", "B", "C", "D", "E", "F", "G", "H", "I", "J", "K", "L", "M",
           "N", "O", "P", "Q", "R", "S", "T", "U", "V", "W", "X", "Y", "Z">>

IsLower(c) == \E i \in DOMAIN Lower : Lower[i] = c
IsUpper(c) == \E i \in DOMAIN Upper : Upper[i] = c
toUpper(c) == IF IsLower(c) THEN Upper[CHOOSE i \in DOMAIN Lower : Lower[i] = c] ELSE c
toLower(c) == IF IsUpper(c) THEN Lower[CHOOSE i \in DOMAIN Upper : Upper[i] = c] ELSE c

\* The bytes of a token, among those the model writes.
validHeaderFieldByte(c) == IsLower(c) \/ IsUpper(c) \/ c = "-"

\* textproto.CanonicalMIMEHeaderKey: the first letter and every letter after
\* a hyphen in upper case, the others in lower case; a key with a byte that
\* is no token byte is left as it is.
CanonicalMIMEHeaderKey(s) ==
  IF \E i \in DOMAIN s : ~validHeaderFieldByte(s[i]) THEN s
  ELSE [i \in DOMAIN s |->
          IF i = 1 \/ s[i - 1] = "-" THEN toUpper(s[i]) ELSE toLower(s[i])]

\* http.Header: canonical name -> the values, in order.
HeaderSet(h, key, value) == MapSet(h, CanonicalMIMEHeaderKey(key), <<value>>)

HeaderGet(h, key) ==
  IF CanonicalMIMEHeaderKey(key) \in DOMAIN h /\ h[CanonicalMIMEHeaderKey(key)] # <<>>
  THEN h[CanonicalMIMEHeaderKey(key)][1]
  ELSE ""

ContentType == <<"C", "o", "n", "t", "e", "n", "t", "-", "T", "y", "p", "e">>
ApplicationJSON == "application/json"

\* for key, value := range req.Headers { httpReq.Header.Set(key, value) },
\* the map ranged over in the order order.
RECURSIVE SetHeaders(_, _, _)
SetHeaders(h, headers, order) ==
  IF order = <<>> THEN h
  ELSE SetHeaders(HeaderSet(h, Head(order), headers[Head(order)]), headers, Tail(order))

InvalidMethod == "net/http: invalid method"

\* http.NewRequest(method, url, body): the method has to be a token (the
\* empty method stands for GET).
NewRequest(method) ==
  [err |-> IF \A i \in DOMAIN method : validHeaderFieldByte(method[i])
           THEN NoError ELSE InvalidMethod,
   Header |-> <<>>]

\* http.Client with CheckRedirect nil: the default policy stops after 10
\* consecutive requests.
MaxConsecutive == 10
StoppedAfter10 == "stopped after 10 redirects"

\* The exchange the network and the servers offer one call, net: the first
\* net.hops requests are answered by the response net.redirect, the next one
\* by the response net.final; request number net.failAt fails with
\* net.failure instead of being answered (0: none does); net.readFails:
\* reading the body of the response Do returned fails.  Every request takes
\* net.latency seconds to be answered and the body net.reading seconds to be
\* read.

\* http.Client{Timeout: 30 * time.Second}: the deadline of a call, set when Do
\* starts; it covers the requests, the redirects and the reading of the body.
ClientTimeout == 30
Timeout == "context deadline exceeded (Client.Timeout exceeded while awaiting headers)"
TimeoutReading == "context deadline exceeded (Client.Timeout or context cancellation while reading body)"

\* A Do that waits for every answer however long it takes.
RECURSIVE Do_NoDeadline(_, _)
Do_NoDeadline(net, via) ==
  IF net.failAt = via + 1
  THEN [err |-> net.failure, resp |-> NoValue, sent |-> via + 1]
  ELSE IF via + 1 <= net.hops
  THEN IF via + 1 >= MaxConsecutive
       THEN [err |-> StoppedAfter10, resp |-> NoValue, sent |-> via + 1]
       ELSE Do_NoDeadline(net, via + 1)
  ELSE [err |-> NoError, resp |-> net.final, sent |-> via + 1]

\* A Do that returns the first response, a redirect or not.
Do_NoFollow(net, via) ==
  IF net.failAt = via + 1
  THEN [err |-> net.failure, resp |-> NoValue, sent |-> via + 1]
  ELSE IF (via + 1) * net.latency > ClientTimeout
  THEN [err |-> Timeout, resp |-> NoValue, sent |-> via + 1]
  ELSE [err |-> NoError, resp |-> IF net.hops > 0 THEN net.redirect ELSE net.final,
        sent |-> via + 1]

\* A Do that sends a failed request once more.
RECURSIVE Do_Retries(_, _)
Do_Retries(net, via) ==
  IF net.failAt = via + 1
  THEN Do_Retries([net EXCEPT !.failAt = 0], via + 1)
  ELSE IF (via + 1) * net.latency > ClientTimeout
  THEN [err |-> Timeout, resp |-> NoValue, sent |-> via + 1]
  ELSE IF via + 1 <= net.hops
  THEN IF via + 1 >= MaxConsecutive
       THEN [err |-> StoppedAfter10, resp |-> NoValue, sent |-> via + 1]
       ELSE Do_Retries(net, via + 1)
  ELSE [err |-> NoError, resp |-> net.final, sent |-> via + 1]

\* c.httpClient.Do(httpReq), via requests sent before: what it returns and the
\* number of requests sent.
RECURSIVE Do(_, _)
Do(net, via) ==
  IF net.failAt = via + 1
  THEN [err |-> net.failure, resp |-> NoValue, sent |-> via + 1]
  ELSE IF (via + 1) * net.latency > ClientTimeout
  THEN [err |-> Timeout, resp |-> NoValue, sent |-> via + 1]
  ELSE IF via + 1 <= net.hops
  THEN IF via + 1 >= MaxConsecutive
       THEN [err |-> StoppedAfter10, resp |-> NoValue, sent |-> via + 1]
       ELSE Do(net, via + 1)
  ELSE [err |-> NoError, resp |-> net.final, sent |-> via + 1]

Separator == <<",", " ">>

\* The first value alone.
Join_FirstOnly(values) == IF values = <<>> THEN <<>> ELSE Head(values)

\* strings.Join(values, ", ")
RECURSIVE Join(_)
Join(values) ==
  IF values = <<>> THEN <<>>
  ELSE IF Len(values) = 1 THEN Head(values)
  ELSE Head(values) \o Separator \o Join(Tail(values))

\* for key, values := range resp.Header { headers[key] = strings.Join(values, ", ") }
CopyHeaders(src) == [key \in DOMAIN src |-> Join(src[key])]

ReadFailed == "unexpected EOF"

\* What ExecuteRequest returns, with the header of the request it built and
\* the number of requests sent.
Executed(err, response, header, sent) ==
  [err |-> err, response |-> response, header |-> header, sent |-> sent]

ExecuteRequest(req, order, net) ==
  LET Received(header, r) ==
        IF r.err # NoError THEN Executed(r.err, NoValue, header, r.sent)
        ELSE IF net.readFails THEN Executed(ReadFailed, NoValue, header, r.sent)
        ELSE IF r.sent * net.latency + net.reading > ClientTimeout
        THEN Executed(TimeoutReading, NoValue, header, r.sent)
        ELSE Executed(NoError,
                      [StatusCode |-> r.resp.StatusCode,
                       Headers |-> GoMap(CopyHeaders(r.resp.Header)),
                       Body |-> r.resp.Body,
                       Duration |-> (r.sent * net.latency + net.reading) * 1000],
                      header, r.sent)
      Defaulted(header) ==
        IF req.Body # "" /\ HeaderGet(header, ContentType) = ""
        THEN HeaderSet(header, ContentType, ApplicationJSON)
        ELSE header
      Send(header) == Received(header, Do(net, 0))
      Built(httpReq) ==
        IF httpReq.err # NoError THEN Executed(httpReq.err, NoValue, <<>>, 0)
        ELSE Send(Defaulted(SetHeaders(httpReq.Header, req.Headers.m, order)))
  IN Built(NewRequest(req.Method))

\* Client.ProxyRequest: ExecuteRequest on a models.Request of the four fields.
\* The call waits in last, and its outcome replaces it there.
ProxyRequest ==
  /\ last.op = "proxyRequest"
  /\ ~last.called
  /\ LET Outcome(r) ==
           last' = [last EXCEPT !.called = TRUE, !.err = r.err, !.out = r]
     IN Outcome(ExecuteRequest(last.arg.req, last.arg.order, last.arg.net))
  /\ UNCHANGED <<folders, requests, sqlite_sequence, now, tx, calls>>

-----------------------------------------------------------------------------
(* POST /api/request: the validation and the handler *)

\* strings.HasPrefix, the case of the letters ignored.
HasPrefix_FoldsCase(str, prefix) ==
  /\ Len(str) >= Len(prefix)
  /\ \A i \in DOMAIN prefix : toLower(str[i]) = toLower(prefix[i])

\* strings.HasPrefix(str, prefix)
HasPrefix(str, prefix) ==
  Len(str) >= Len(prefix) /\ SubSeq(str, 1, Len(prefix)) = prefix

URLRequired == "URL is required"
URLScheme == "URL must start with http:// or https://"

ValidateURL(url) ==
  IF url = <<>> THEN URLRequired
  ELSE IF ~HasPrefix(url, <<"h", "t", "t", "p", ":", "/", "/">>)
          /\ ~HasPrefix(url, <<"h", "t", "t", "p", "s", ":", "/", "/">>)
  THEN URLScheme
  ELSE NoError

\* strings.ToUpper, on the letters the model writes.
ToUpper(str) == [i \in DOMAIN str |-> toUpper(str[i])]

ValidMethods ==
  <<<<"G", "E", "T">>,
    <<"P", "O", "S", "T">>,
    <<"P", "U", "T">>,
    <<"D", "E", "L", "E", "T", "E">>,
    <<"P", "A", "T", "C", "H">>,
    <<"H", "E", "A", "D">>,
    <<"O", "P", "T", "I", "O", "N", "S">>>>

\* errors.New("invalid HTTP method: " + method): the words, then the
\* characters of method.
InvalidHTTPMethod(method) == <<"invalid HTTP method: ">> \o method

\* method = strings.ToUpper(method) comes first, so it is the upper-case
\* method that the error names.
ValidateMethod(method) ==
  IF \E i \in DOMAIN ValidMethods : ToUpper(method) = ValidMethods[i]
  THEN NoError
  ELSE InvalidHTTPMethod(ToUpper(method))

\* What handleProxyRequest answered: invoked tells whether it called the
\* proxy client, r is what the client returned.
Proxy(invoked, r, status, body) ==
  last' = [last EXCEPT !.called = invoked, !.err = r.err, !.out = r,
                       !.status = status, !.body = body]

NotExecuted == Executed(NoError, NoValue, <<>>, 0)

\* A handler that calls the proxy client whatever the method.
handleProxyRequest_SkipsValidateMethod ==
  /\ last.op = "handleProxyRequest"
  /\ last.status = 0
  /\ LET Answer(r) ==
           IF r.err # NoError
           THEN Proxy(TRUE, r, StatusInternalServerError,
                      ErrorJSON(<<"Failed to execute request: ", r.err>>))
           ELSE Proxy(TRUE, r, StatusOK, ObjectJSON(r.response))
         Checked(proxyReq, urlErr) ==
           IF urlErr # NoError
           THEN Proxy(FALSE, NotExecuted, StatusBadRequest, ErrorJSON(urlErr))
           ELSE Answer(ExecuteRequest(proxyReq, last.arg.order, last.arg.net))
     IN IF last.arg.body.malformed
        THEN Proxy(FALSE, NotExecuted, StatusBadRequest, ErrorJSON("Invalid request body"))
        ELSE Checked(last.arg.body.req, ValidateURL(last.arg.body.req.URL))
  /\ UNCHANGED <<folders, requests, sqlite_sequence, now, tx, calls>>

\* The request waits in last, and the response replaces it there.
handleProxyRequest ==
  /\ last.op = "handleProxyRequest"
  /\ last.status = 0
  /\ LET Answer(r) ==
           IF r.err # NoError
           THEN Proxy(TRUE, r, StatusInternalServerError,
                      ErrorJSON(<<"Failed to execute request: ", r.err>>))
           ELSE Proxy(TRUE, r, StatusOK, ObjectJSON(r.response))
         Checked(proxyReq, urlErr, methodErr) ==
           IF urlErr # NoError
           THEN Proxy(FALSE, NotExecuted, StatusBadRequest, ErrorJSON(urlErr))
           ELSE IF methodErr # NoError
           THEN Proxy(FALSE, NotExecuted, StatusBadRequest, ErrorJSON(methodErr))
           ELSE Answer(ExecuteRequest(proxyReq, last.arg.order, last.arg.net))
     IN IF last.arg.body.malformed
        THEN Proxy(FALSE, NotExecuted, StatusBadRequest, ErrorJSON("Invalid request body"))
        ELSE Checked(last.arg.body.req, ValidateURL(last.arg.body.req.URL),
                     ValidateMethod(last.arg.body.req.Method))
  /\ UNCHANGED <<folders, requests, sqlite_sequence, now, tx, calls>>

-----------------------------------------------------------------------------
(* The origin middleware: internal/middleware/origin.go *)

\* Paths, origins and referers are sequences of characters; "DEL" stands for
\* the one control byte the model writes.
DecimalDigits == <<"0", "1", "2", "3", "4", "5", "6", "7", "8", "9">>
IsDigit(c) == \E i \in DOMAIN DecimalDigits : DecimalDigits[i] = c
IsLetter(c) == IsLower(c) \/ IsUpper(c)
IsCTL(c) == c = "DEL"

\* strings.IndexByte and strings.LastIndexByte, counted from 1, 0 for none.
IndexByte(str, c) ==
  IF \E i \in DOMAIN str : str[i] = c
  THEN CHOOSE i \in DOMAIN str : str[i] = c /\ \A j \in 1..(i - 1) : str[j] # c
  ELSE 0

LastIndexByte(str, c) ==
  IF \E i \in DOMAIN str : str[i] = c
  THEN CHOOSE i \in DOMAIN str : str[i] = c /\ \A j \in (i + 1)..Len(str) : str[j] # c
  ELSE 0

Before(str, i) == SubSeq(str, 1, i - 1)
After(str, i) == SubSeq(str, i + 1, Len(str))
Cut(str, c) == IF IndexByte(str, c) = 0 THEN str ELSE Before(str, IndexByte(str, c))

\* fmt.Sprintf("%d", n) for n >= 0
RECURSIVE Itoa(_)
Itoa(n) ==
  IF n < 10 THEN <<DecimalDigits[n + 1]>>
  ELSE Itoa(n \div 10) \o <<DecimalDigits[(n % 10) + 1]>>

\* net/url getScheme: the first byte that cannot be part of a scheme.
SchemeEnd(str) ==
  LET Stops(i) == ~(IsLetter(str[i]) \/ (i > 1 /\ (IsDigit(str[i]) \/ str[i] \in {"+", "-", "."})))
  IN IF \E i \in DOMAIN str : Stops(i)
     THEN CHOOSE i \in DOMAIN str : Stops(i) /\ \A j \in 1..(i - 1) : ~Stops(j)
     ELSE 0

getScheme(str) ==
  LET Split(i) ==
        IF i # 0 /\ str[i] = ":"
        THEN IF i = 1 THEN [err |-> TRUE, scheme |-> <<>>, rest |-> <<>>]
             ELSE [err |-> FALSE, scheme |-> Before(str, i), rest |-> After(str, i)]
        ELSE [err |-> FALSE, scheme |-> <<>>, rest |-> str]
  IN Split(SchemeEnd(str))

validOptionalPort(port) ==
  port = <<>> \/ (port[1] = ":" /\ \A i \in 2..Len(port) : IsDigit(port[i]))

\* net/url parseHost: the brackets and the port of a host are checked.
parseHostFails(host) ==
  IF host # <<>> /\ host[1] = "["
  THEN LastIndexByte(host, "]") = 0
         \/ ~validOptionalPort(After(host, LastIndexByte(host, "]")))
  ELSE LastIndexByte(host, ":") # 0
         /\ ~validOptionalPort(SubSeq(host, LastIndexByte(host, ":"), Len(host)))

\* url.Parse(rawURL), as far as Scheme and Host: the fragment and the query
\* are cut off, the scheme is put in lower case, the authority after "//"
\* loses its userinfo.
Parse(rawURL) ==
  LET Failed == [err |-> TRUE, Scheme |-> <<>>, Host |-> <<>>]
      Authority(scheme, authority) ==
        IF parseHostFails(After(authority, LastIndexByte(authority, "@"))) THEN Failed
        ELSE [err |-> FALSE, Scheme |-> scheme,
              Host |-> After(authority, LastIndexByte(authority, "@"))]
      Rest(scheme, rest) ==
        IF rest = <<>> \/ rest[1] # "/"
        THEN IF scheme # <<>> THEN [err |-> FALSE, Scheme |-> scheme, Host |-> <<>>]
             ELSE IF IndexByte(Cut(rest, "/"), ":") # 0 THEN Failed
             ELSE [err |-> FALSE, Scheme |-> scheme, Host |-> <<>>]
        ELSE IF HasPrefix(rest, <<"/", "/">>)
                  /\ (scheme # <<>> \/ ~HasPrefix(rest, <<"/", "/", "/">>))
        THEN Authority(scheme, Cut(After(rest, 2), "/"))
        ELSE [err |-> FALSE, Scheme |-> scheme, Host |-> <<>>]
      Schemed(g) ==
        IF g.err THEN Failed
        ELSE Rest([i \in DOMAIN g.scheme |-> toLower(g.scheme[i])], Cut(g.rest, "?"))
  IN IF \E i \in DOMAIN rawURL : IsCTL(rawURL[i]) THEN Failed
     ELSE Schemed(getScheme(Cut(rawURL, "#")))

isAPIRoute_PrefixOnly(path) == Len(path) > 3 /\ SubSeq(path, 1, 4) = <<"/", "a", "p", "i">>

isAPIRoute(path) ==
  path = <<"/", "a", "p", "i">> \/ (Len(path) > 4 /\ SubSeq(path, 1, 5) = <<"/", "a", "p", "i", "/">>)

isAllowedOrigin(origin, allowedPort) ==
  \/ origin = <<"h", "t", "t", "p", ":", "/", "/", "l", "o", "c", "a", "l", "h", "o", "s", "t", ":">> \o Itoa(allowedPort)
  \/ origin = <<"h", "t", "t", "p", ":", "/", "/", "1", "2", "7", ".", "0", ".", "0", ".", "1", ":">> \o Itoa(allowedPort)
  \/ origin = <<"h", "t", "t", "p", ":", "/", "/", "[", ":", ":", "1", "]", ":">> \o Itoa(allowedPort)

StatusForbidden == 403

\* c.JSON(status, models.NewErrorResponse(message))
NewErrorResponse(message) == [type |-> "object", value |-> [messages |-> <<message>>]]

\* The origin the middleware checks: the Origin header, or what it makes of
\* the Referer header.
EffectiveOrigin(origin, referer) ==
  LET Referred(refURL) ==
        IF refURL.err THEN <<>> ELSE refURL.Scheme \o <<":", "/", "/">> \o refURL.Host
  IN IF origin # <<>> THEN origin
     ELSE IF referer # <<>> THEN Referred(Parse(referer))
     ELSE <<>>

\* The handler OriginValidator(allowedPort) returns, run on the request that
\* waits in last: called tells whether next was run (and answered 200).
OriginValidator ==
  /\ last.op = "OriginValidator"
  /\ last.status = 0
  /\ LET Next(status, body) ==
           last' = [last EXCEPT !.called = status = StatusOK, !.status = status, !.body = body]
         Checked(origin) ==
           IF origin = <<>> THEN Next(StatusOK, NoContent)
           ELSE IF ~isAllowedOrigin(origin, last.arg.allowedPort)
           THEN Next(StatusForbidden, NewErrorResponse("Forbidden: Invalid origin"))
           ELSE Next(StatusOK, NoContent)
     IN IF ~isAPIRoute(last.arg.path) THEN Next(StatusOK, NoContent)
        ELSE Checked(EffectiveOrigin(last.arg.origin, last.arg.referer.text))
  /\ UNCHANGED <<folders, requests, sqlite_sequence, now, tx, calls>>

-----------------------------------------------------------------------------
(* The calls the model makes *)

\* The path parameters: the ids 1..n and a word that is no number.
IdParams(n) == {Digits[i] : i \in 1..n} \cup {"invalid"}

MalformedFolderBody == [malformed |-> TRUE, id |-> 0, name |-> "", parent_id |-> NULL]

FolderBodies(names, parents) ==
  [malformed : {FALSE}, id : {0}, name : names, parent_id : parents]
    \cup {MalformedFolderBody}

\* A string of a JSON document as a client writes it: quoted and escaped, a
\* byte that is not valid UTF-8 sent as it is.
RECURSIVE WireEscape(_)
WireEscape(s) ==
  IF s = <<>> THEN <<>>
  ELSE (IF Head(s) \in {"\"", "\\"} THEN <<"\\", Head(s)>> ELSE <<Head(s)>>)
       \o WireEscape(Tail(s))

WireString(s) == <<"\"">> \o WireEscape(s) \o <<"\"">>

RECURSIVE WireMembers(_)
WireMembers(pairs) ==
  IF pairs = <<>> THEN <<>>
  ELSE WireString(Head(pairs)[1]) \o <<":">> \o WireString(Head(pairs)[2])
       \o (IF Tail(pairs) = <<>> THEN <<>> ELSE <<",">>)
       \o WireMembers(Tail(pairs))

WireObject(pairs) == <<"{">> \o WireMembers(pairs) \o <<"}">>

SeqsUpTo(S, n) == UNION {[1..k -> S] : k \in 0..n}

AbsentHeaders == [present |-> FALSE, text |-> <<>>]
NullHeaders == [present |-> TRUE, text |-> <<"n", "u", "l", "l">>]

\* The headers members the model sends: none, null, and every object of at
\* most MaxHeaders members over these keys and values (a key may repeat).
HeaderKeys == {<<"a">>, <<BadByte>>}
HeaderValues == {<<"\"">>, <<BadByte, "\\">>}

WireHeaders ==
  {AbsentHeaders, NullHeaders}
    \cup {[present |-> TRUE, text |-> WireObject(p)] :
            p \in SeqsUpTo(HeaderKeys \X HeaderValues, MaxHeaders)}

MalformedRequestBody ==
  [malformed |-> TRUE, id |-> 0, name |-> "", folder_id |-> NULL, method |-> "",
   url |-> "", headers |-> AbsentHeaders, body |-> ""]

RequestBodies(names, refs, hdrs) ==
  [malformed : {FALSE}, id : {0}, name : names, folder_id : refs, method : {"GET"},
   url : {"http://x"}, headers : hdrs, body : {""}]
    \cup {MalformedRequestBody}

Init ==
  /\ folders = <<>>
  /\ requests = <<>>
  /\ sqlite_sequence = [folders |-> 0, requests |-> 0]
  /\ now = 0
  /\ last = [op |-> "none", id |-> 0, called |-> FALSE, arg |-> NoValue, err |-> NoError,
             out |-> NoValue, status |-> 0, body |-> NoContent]
  /\ tx = NoTx
  /\ calls = [g \in Goroutines |-> Idle]

\* The folder handlers, called with the bodies fb, the clock advancing by one
\* of dts seconds before a call, until n folders have been inserted.
FolderHandlers(fb, dts, n) ==
  \/ \E body \in fb, dt \in dts :
       sqlite_sequence.folders < n /\ handleCreateFolder(body, dt)
  \/ \E rows \in selectFoldersQuery(DB) : handleGetFolders(rows)
  \/ \E idParam \in IdParams(n) : handleGetFolderByID(idParam)
  \/ \E idParam \in IdParams(n), body \in fb, dt \in dts :
       handleUpdateFolderByID(idParam, body, dt)
  \/ \E idParam \in IdParams(n) : handleDeleteFolderByID(idParam)

\* The request handlers, likewise.
RequestHandlers(rb, dts, n) ==
  \/ \E body \in rb, dt \in dts :
       sqlite_sequence.requests < n /\ handleCreateRequest(body, dt)
  \/ \E rows \in selectRequestsQuery(DB) : handleGetRequests(rows)
  \/ \E idParam \in IdParams(n) : handleGetRequestByID(idParam)
  \/ \E idParam \in IdParams(n), body \in rb, dt \in dts :
       handleUpdateRequestByID(idParam, body, dt)
  \/ \E idParam \in IdParams(n) : handleDeleteRequestByID(idParam)

\* Folders and the requests in them: every folder_id, one name, no headers,
\* every call within the same second.
Next ==
  \/ FolderHandlers(FolderBodies({"a"}, {NULL}), {0}, MaxFolders)
  \/ RequestHandlers(RequestBodies({"r"}, {NULL} \cup (1..MaxFolders), {AbsentHeaders}),
                     {0}, MaxRequests)

Spec == Init /\ [][Next]_vars

\* The folder tree: every parent_id.
NextFolders ==
  FolderHandlers(FolderBodies({"a"}, {NULL} \cup (1..MaxTree)), {0}, MaxTree)

SpecFolders == Init /\ [][NextFolders]_vars

\* The timestamps: the clock advances, rows do not reference each other.
NextTime ==
  \/ FolderHandlers(FolderBodies({"a"}, {NULL}), {0, 1}, MaxTimed)
  \/ RequestHandlers(RequestBodies({"r"}, {NULL}, {AbsentHeaders}), {0, 1}, MaxTimed)

SpecTime == Init /\ [][NextTime]_vars

\* The ids: rows are created and deleted until MaxIds rows of a kind have
\* been inserted; rows do not reference each other.
NextIds ==
  \/ FolderHandlers(FolderBodies({"a"}, {NULL}), {0}, MaxIds)
  \/ RequestHandlers(RequestBodies({"r"}, {NULL}, {AbsentHeaders}), {0}, MaxIds)

SpecIds == Init /\ [][NextIds]_vars

\* The bodies of PUT: one that supplies every member and one that supplies
\* none, each without an id and with the id 2, next to the row an update
\* with it is to leave in the store (the headers as the JSON text of the
\* column).
FolderCreated == [malformed |-> FALSE, id |-> 0, name |-> "a", parent_id |-> NULL]

FolderReplacements ==
  {[body |-> [malformed |-> FALSE, id |-> id, name |-> "b", parent_id |-> 1],
    row |-> [name |-> "b", parent_id |-> 1]] : id \in {0, 2}}
    \cup {[body |-> [malformed |-> FALSE, id |-> id, name |-> "", parent_id |-> NULL],
            row |-> [name |-> "", parent_id |-> NULL]] : id \in {0, 2}}

RequestCreated ==
  [malformed |-> FALSE, id |-> 0, name |-> "r", folder_id |-> NULL, method |-> "GET",
   url |-> "http://x",
   headers |-> [present |-> TRUE, text |-> WireObject(<<<< <<"a">>, <<"v">> >>>>)],
   body |-> "c"]

RequestReplacements ==
  {[body |-> [malformed |-> FALSE, id |-> id, name |-> "s", folder_id |-> 1,
              method |-> "POST", url |-> "http://y",
              headers |-> [present |-> TRUE, text |-> WireObject(<<<< <<"b">>, <<"w">> >>>>)],
              body |-> "d"],
    row |-> [name |-> "s", folder_id |-> 1, method |-> "POST", url |-> "http://y",
             headers |-> <<"{", "\"", "b", "\"", ":", "\"", "w", "\"", "}">>,
             body |-> "d"]] : id \in {0, 2}}
    \cup {[body |-> [malformed |-> FALSE, id |-> id, name |-> "", folder_id |-> NULL,
                      method |-> "", url |-> "", headers |-> AbsentHeaders, body |-> ""],
            row |-> [name |-> "", folder_id |-> NULL, method |-> "", url |-> "",
                     headers |-> <<"{", "}">>, body |-> ""]] : id \in {0, 2}}

\* Rows are created, MaxReplaced of them in all, and replaced.
NextReplace ==
  \/ /\ sqlite_sequence.folders + sqlite_sequence.requests < MaxReplaced
     /\ handleCreateFolder(FolderCreated, 0)
  \/ /\ sqlite_sequence.folders + sqlite_sequence.requests < MaxReplaced
     /\ handleCreateRequest(RequestCreated, 0)
  \/ \E idParam \in IdParams(MaxReplaced), u \in FolderReplacements :
       handleUpdateFolderByID(idParam, u.body, 0)
  \/ \E idParam \in IdParams(MaxReplaced), u \in RequestReplacements :
       handleUpdateRequestByID(idParam, u.body, 0)

SpecReplace == Init /\ [][NextReplace]_vars

\* The headers column: every headers member.
NextHeaders ==
  RequestHandlers(RequestBodies({"r"}, {NULL}, WireHeaders), {0}, MaxRequests)

SpecHeaders == Init /\ [][NextHeaders]_vars

\* The list of folders: two names, the capital one first in the BINARY
\* collation whatever the order of creation.
NextFolderList ==
  FolderHandlers(FolderBodies({"B", "a"}, {NULL}), {0}, MaxNamed)

SpecFolderList == Init /\ [][NextFolderList]_vars

\* The list of requests: the clock advances between some calls and not
\* between others.
NextRequestList ==
  RequestHandlers(RequestBodies({"r"}, {NULL}, {AbsentHeaders}), {0, 1}, MaxListed)

SpecRequestList == Init /\ [][NextRequestList]_vars

\* A transaction at a time, the folder handlers between two transactions and
\* the reading ones while one is open.
NextTx ==
  \/ \E ok \in BOOLEAN : BeginTx(ok)
  \/ \E name \in {"a"} : tx.db.seq.folders < MaxTxRows /\ fnExec(name)
  \/ \E rbOK \in BOOLEAN : Rollback(ErrTxDone, rbOK)
  \/ \E ok \in BOOLEAN : Commit(ok)
  \/ ~tx.open /\ FolderHandlers(FolderBodies({"a"}, {NULL}), {0}, MaxTxRows)
  \/ tx.open /\ \E rows \in selectFoldersQuery(DB) : handleGetFolders(rows)
  \/ tx.open /\ \E idParam \in IdParams(MaxTxRows) : handleGetFolderByID(idParam)

SpecTx == Init /\ [][NextTx]_vars

\* CreateFolder called by the goroutines, each statement a step.
NextConcurrent ==
  \/ \E g \in Goroutines, name \in {"a", "b"}, parent_id \in {NULL, 1} :
       /\ sqlite_sequence.folders + Begun < MaxCreated
       /\ CreateFolderCall(g, [ZeroFolder EXCEPT !.name = name, !.parent_id = parent_id])
  \/ \E g \in Goroutines : CreateFolderExec(g)
  \/ \E g \in Goroutines : CreateFolderGet(g)

SpecConcurrent == Init /\ [][NextConcurrent]_vars

\* CreateFolder called by the goroutines while other calls update and delete
\* the folders: each statement of CreateFolder a step, UpdateFolder and
\* DeleteFolder one statement each.
NextInterleaved ==
  \/ \E g \in Goroutines, name \in {"a"}, parent_id \in {NULL} :
       /\ sqlite_sequence.folders + Begun < MaxCreated
       /\ CreateFolderCall(g, [ZeroFolder EXCEPT !.name = name, !.parent_id = parent_id])
  \/ \E g \in Goroutines : CreateFolderExec(g)
  \/ \E g \in Goroutines : CreateFolderGet(g)
  \/ \E idParam \in IdParams(MaxCreated), body \in FolderBodies({"b"}, {NULL, 1}) :
       handleUpdateFolderByID(idParam, body, 0)
  \/ \E idParam \in IdParams(MaxCreated) : handleDeleteFolderByID(idParam)

SpecInterleaved == Init /\ [][NextInterleaved]_vars

\* A call of ProxyRequest that waits to be run.
Waiting(req, order, net) ==
  [op |-> "proxyRequest", id |-> 0, called |-> FALSE,
   arg |-> [req |-> req, order |-> order, net |-> net],
   err |-> NoError, out |-> NoValue, status |-> 0, body |-> NoContent]

InitProxy(waiting) ==
  /\ folders = <<>>
  /\ requests = <<>>
  /\ sqlite_sequence = [folders |-> 0, requests |-> 0]
  /\ now = 0
  /\ last \in waiting
  /\ tx = NoTx
  /\ calls = [g \in Goroutines |-> Idle]

Location == <<"L", "o", "c", "a", "t", "i", "o", "n">>
SetCookie == <<"S", "e", "t", "-", "C", "o", "o", "k", "i", "e">>
XTrace == <<"X", "-", "T", "r", "a", "c", "e">>

Found == [StatusCode |-> 302, Header |-> (Location :> <<<<"/">>>>), Body |-> "moved"]
Answer(header) == [StatusCode |-> 200, Header |-> header, Body |-> "ok"]

\* An exchange of one request, answered at once.
PlainNet ==
  [hops |-> 0, failAt |-> 0, failure |-> NoError, readFails |-> FALSE,
   redirect |-> Found, final |-> Answer(<<>>), latency |-> 0, reading |-> 0]

GET == <<"G", "E", "T">>

\* The headers of the requests: at most MaxKeys entries, among them names
\* that differ in the case of their letters only.
ProxyKeys ==
  {<<"x", "-", "a">>, <<"X", "-", "A">>, ContentType,
   <<"c", "o", "n", "t", "e", "n", "t", "-", "t", "y", "p", "e">>}

ProxyHeaders(n) ==
  UNION {[S -> {"", "v", "w"}] : S \in {T \in SUBSET ProxyKeys : Cardinality(T) <= n}}

WaitingHeaders(n) ==
  UNION {{Waiting([Method |-> GET, URL |-> "http://x", Headers |-> GoMap(h), Body |-> b],
                  order, PlainNet) : order \in Orders(DOMAIN h), b \in {"", "x"}} :
           h \in ProxyHeaders(n)}

SpecProxyHeaders == InitProxy(WaitingHeaders(MaxKeys)) /\ [][ProxyRequest]_vars

\* The exchanges: every number of redirects up to MaxHops, a failure of any
\* of the requests or of the reading of the body, and the headers of the
\* final response, of at most MaxValues values each.
ConnectionReset == "read: connection reset by peer"
ConnectionRefused == "dial tcp: connect: connection refused"

\* Set-Cookie of up to n values, with X-Trace of one value or without.
ResponseHeaders(n) ==
  UNION {{[name \in S |-> IF name = XTrace THEN <<<<"a">>>> ELSE values] :
            values \in UNION {[1..k -> {<<"a">>, <<"b">>}] : k \in 1..n}} :
           S \in SUBSET {SetCookie, XTrace}}

Exchanges(h, n) ==
  UNION {{[hops |-> hops, failAt |-> failAt,
           failure |-> IF failAt = 0 THEN NoError ELSE failure,
           readFails |-> readFails,
           redirect |-> Found, final |-> Answer(header), latency |-> 0, reading |-> 0] :
             failAt \in 0..(hops + 1),
             failure \in {ConnectionReset, ConnectionRefused},
             readFails \in BOOLEAN,
             header \in ResponseHeaders(n)} :
          hops \in 0..h}

WaitingExchanges(h, n) ==
  {Waiting([Method |-> GET, URL |-> "http://x", Headers |-> NilMap, Body |-> ""],
           <<>>, net) : net \in Exchanges(h, n)}
    \cup {Waiting([Method |-> <<"G", " ", "T">>, URL |-> "http://x",
                   Headers |-> NilMap, Body |-> ""], <<>>, PlainNet)}

SpecProxyExchange ==
  InitProxy(WaitingExchanges(MaxHops, MaxValues)) /\ [][ProxyRequest]_vars

\* The exchanges that take time: requests answered at once, after 7 or after
\* 16 seconds, a body read at once or in 20 seconds (no exchange ends at the
\* very second the timer fires), asked for by a request with or without a
\* header that names another timeout.
TimeoutHeader == <<"T", "i", "m", "e", "o", "u", "t">>

TimedExchanges(h) ==
  {[hops |-> hops, failAt |-> 0, failure |-> NoError, readFails |-> FALSE,
    redirect |-> Found, final |-> Answer(<<>>), latency |-> latency, reading |-> reading] :
      hops \in 0..h, latency \in {0, 7, 16}, reading \in {0, 20}}

WaitingTimed(h) ==
  {Waiting([Method |-> GET, URL |-> "http://x", Headers |-> headers, Body |-> ""],
           IF headers.isNil THEN <<>> ELSE <<TimeoutHeader>>, net) :
     headers \in {NilMap, GoMap(TimeoutHeader :> "99")}, net \in TimedExchanges(h)}

SpecProxyTimeout == InitProxy(WaitingTimed(MaxTimedHops)) /\ [][ProxyRequest]_vars

\* The requests posted to /api/request: a body that does not bind, and every
\* pair of these URLs and methods, over an exchange that is answered and one
\* whose connection is refused.
ProxiedURLs ==
  {<<>>,
   <<"h", "t", "t", "p", ":", "/", "/">>,
   <<"h", "t", "t", "p", ":", "/", "/", "x">>,
   <<"h", "t", "t", "p", "s", ":", "/", "/", "x">>,
   <<"H", "T", "T", "P", ":", "/", "/", "x">>,
   <<"H", "t", "t", "p", "s", ":", "/", "/", "x">>,
   <<"f", "t", "p", ":", "/", "/", "x">>,
   <<"h", "t", "t", "p", ":", "/">>,
   <<"x">>,
   <<"h", "t", "t", "p", ":", "/", "/", "x", " ", "y">>,
   <<" ", "h", "t", "t", "p", ":", "/", "/", "x">>,
   <<"h", "t", "t", "p", "s", "s", ":", "/", "/", "x">>}

ProxiedMethods ==
  {<<"G", "E", "T">>,
   <<"g", "e", "t">>,
   <<"P", "o", "s", "t">>,
   <<"P", "U", "T">>,
   <<"D", "E", "L", "E", "T", "E">>,
   <<"P", "A", "T", "C", "H">>,
   <<"H", "E", "A", "D">>,
   <<"O", "P", "T", "I", "O", "N", "S">>,
   <<>>,
   <<"f", "o", "o">>,
   <<"T", "R", "A", "C", "E">>,
   <<"G", "E", "T", " ">>}

RefusedNet == [PlainNet EXCEPT !.failAt = 1, !.failure = ConnectionRefused]

Posted(malformed, req, net) ==
  [op |-> "handleProxyRequest", id |-> 0, called |-> FALSE,
   arg |-> [body |-> [malformed |-> malformed, req |-> req], order |-> <<>>, net |-> net],
   err |-> NoError, out |-> NoValue, status |-> 0, body |-> NoContent]

PostedRequests ==
  {Posted(malformed, [Method |-> method, URL |-> url, Headers |-> NilMap, Body |-> ""], net) :
     malformed \in BOOLEAN, method \in ProxiedMethods, url \in ProxiedURLs,
     net \in {PlainNet, RefusedNet}}

SpecProxyHandler == InitProxy(PostedRequests) /\ [][handleProxyRequest]_vars

\* The requests that come to the middleware: these paths, Origin headers and
\* Referer headers (a referer with the scheme and the host it was written
\* with, or marked as one url.Parse refuses), for these ports (the number and
\* its digits).
Paths ==
  {<<"/", "a", "p", "i">>,
   <<"/", "a", "p", "i", "/">>,
   <<"/", "a", "p", "i", "/", "r", "e", "q", "u", "e", "s", "t", "s">>,
   <<"/", "a", "p", "i", "x">>,
   <<"/">>,
   <<"/", "i", "n", "d", "e", "x", ".", "h", "t", "m", "l">>,
   <<"/", "A", "P", "I", "/", "r", "e", "q", "u", "e", "s", "t", "s">>,
   <<"/", "a", "p">>}

Origins ==
  {<<>>,
   <<"h", "t", "t", "p", ":", "/", "/", "l", "o", "c", "a", "l", "h", "o", "s", "t", ":", "8", "0", "8", "0">>,
   <<"h", "t", "t", "p", ":", "/", "/", "1", "2", "7", ".", "0", ".", "0", ".", "1", ":", "8", "0", "8", "0">>,
   <<"h", "t", "t", "p", ":", "/", "/", "[", ":", ":", "1", "]", ":", "8", "0", "8", "0">>,
   <<"h", "t", "t", "p", ":", "/", "/", "e", "v", "i", "l", ".", "c", "o", "m">>,
   <<"h", "t", "t", "p", "s", ":", "/", "/", "l", "o", "c", "a", "l", "h", "o", "s", "t", ":", "8", "0", "8", "0">>,
   <<"h", "t", "t", "p", ":", "/", "/", "l", "o", "c", "a", "l", "h", "o", "s", "t", ":", "8", "0">>,
   <<"h", "t", "t", "p", ":", "/", "/", "l", "o", "c", "a", "l", "h", "o", "s", "t", ":", "8", "0", "8", "0", "/">>,
   <<"h", "t", "t", "p", ":", "/", "/", "L", "O", "C", "A", "L", "H", "O", "S", "T", ":", "8", "0", "8", "0">>,
   <<"n", "u", "l", "l">>}

Referers ==
  {[text |-> <<>>, parses |-> TRUE, scheme |-> <<>>, host |-> <<>>],
   [text |-> <<"h", "t", "t", "p", ":", "/", "/", "l", "o", "c", "a", "l", "h", "o", "s", "t", ":", "8", "0", "8", "0", "/", "s", "o", "m", "e", "-", "p", "a", "g", "e">>, parses |-> TRUE, scheme |-> <<"h", "t", "t", "p">>, host |-> <<"l", "o", "c", "a", "l", "h", "o", "s", "t", ":", "8", "0", "8", "0">>],
   [text |-> <<"h", "t", "t", "p", ":", "/", "/", "e", "v", "i", "l", ".", "c", "o", "m", "/", "x">>, parses |-> TRUE, scheme |-> <<"h", "t", "t", "p">>, host |-> <<"e", "v", "i", "l", ".", "c", "o", "m">>],
   [text |-> <<"H", "T", "T", "P", ":", "/", "/", "l", "o", "c", "a", "l", "h", "o", "s", "t", ":", "8", "0", "8", "0">>, parses |-> TRUE, scheme |-> <<"h", "t", "t", "p">>, host |-> <<"l", "o", "c", "a", "l", "h", "o", "s", "t", ":", "8", "0", "8", "0">>],
   [text |-> <<"h", "t", "t", "p", ":", "/", "/", "u", "@", "l", "o", "c", "a", "l", "h", "o", "s", "t", ":", "8", "0", "8", "0", "/">>, parses |-> TRUE, scheme |-> <<"h", "t", "t", "p">>, host |-> <<"l", "o", "c", "a", "l", "h", "o", "s", "t", ":", "8", "0", "8", "0">>],
   [text |-> <<"h", "t", "t", "p", ":", "/", "/", "l", "o", "c", "a", "l", "h", "o", "s", "t", ":", "8", "0", "8", "0", "?", "q", "#", "f">>, parses |-> TRUE, scheme |-> <<"h", "t", "t", "p">>, host |-> <<"l", "o", "c", "a", "l", "h", "o", "s", "t", ":", "8", "0", "8", "0">>],
   [text |-> <<"h", "t", "t", "p", ":", "/", "/", "[", ":", ":", "1", "]", ":", "8", "0", "8", "0", "/", "p">>, parses |-> TRUE, scheme |-> <<"h", "t", "t", "p">>, host |-> <<"[", ":", ":", "1", "]", ":", "8", "0", "8", "0">>],
   [text |-> <<"x">>, parses |-> TRUE, scheme |-> <<>>, host |-> <<>>],
   [text |-> <<"m", "a", "i", "l", "t", "o", ":", "a">>, parses |-> TRUE, scheme |-> <<"m", "a", "i", "l", "t", "o">>, host |-> <<>>],
   [text |-> <<"h", "t", "t", "p", ":", "/", "/", "e", "v", "i", "l", ".", "c", "o", "m", ":", "x", "/">>, parses |-> FALSE, scheme |-> <<>>, host |-> <<>>],
   [text |-> <<"DEL">>, parses |-> FALSE, scheme |-> <<>>, host |-> <<>>]}

Ports == {[n |-> 8080, text |-> <<"8", "0", "8", "0">>], [n |-> 80, text |-> <<"8", "0">>]}

Arrived(path, origin, referer, port) ==
  [op |-> "OriginValidator", id |-> 0, called |-> FALSE,
   arg |-> [path |-> path, origin |-> origin, referer |-> referer,
            allowedPort |-> port.n, port |-> port.text],
   err |-> NoError, out |-> NoValue, status |-> 0, body |-> NoContent]

ArrivedRequests ==
  {Arrived(path, origin, referer, port) :
     path \in Paths, origin \in Origins, referer \in Referers, port \in Ports}

SpecOrigin == InitProxy(ArrivedRequests) /\ [][OriginValidator]_vars

-----------------------------------------------------------------------------
(* Properties *)

\* The step just taken was a call of op that reached the store and succeeded.
Succeeded(op) == last'.op = op /\ last'.called /\ last'.err = NoError

\* C1: after a successful deleteFolder(id) the store holds neither folder id
\* nor any folder that had id as an ancestor through parent_id.
C1_DeleteFolderRemovesDescendants ==
  [][Succeeded("deleteFolder") =>
       Closure(folders, {last'.id}) \cap DOMAIN folders' = {}]_vars

\* C2: after a successful deleteFolder(id) every request whose folder_id was
\* id is still stored and has folder_id = NULL.
C2_DeleteFolderClearsFolderId ==
  [][Succeeded("deleteFolder") =>
       \A r \in DOMAIN requests :
         requests[r].folder_id = last'.id =>
           r \in DOMAIN requests' /\ requests'[r].folder_id = NULL]_vars

\* C3: createFolder with a parent_id that matches no stored folder fails with
\* a storage error and inserts no row.
C3_CreateFolderRejectsUnknownParent ==
  [][(/\ last'.op = "createFolder"
      /\ last'.called
      /\ last'.arg.parent_id # NULL
      /\ last'.arg.parent_id \notin DOMAIN folders)
       => last'.err # NoError /\ folders' = folders]_vars

\* C4: a PUT or DELETE on /api/folders/:id or /api/requests/:id whose id
\* matches no stored row (the store answers not found) is answered with 404.
C4_NotFoundIs404 ==
  (/\ last.op \in {"updateFolder", "deleteFolder", "updateRequest", "deleteRequest"}
   /\ last.called
   /\ last.err \in {FolderNotFound, RequestNotFound})
    => last.status = StatusNotFound

\* C5: every failure response of a handler has a JSON body {messages: [...]}
\* with at least one message.
C5_FailuresCarryMessages ==
  last.status >= StatusBadRequest =>
    /\ last.body.type = "object"
    /\ "messages" \in DOMAIN last.body.value
    /\ Len(last.body.value["messages"]) >= 1

\* C6: updateFolder, deleteFolder, updateRequest and deleteRequest called
\* with an id that matches no row fail with the not-found error of their kind
\* and leave every stored folder and request as it was.
C6_UnknownIdIsNotFound ==
  [][/\ (/\ last'.op \in {"updateFolder", "deleteFolder"}
         /\ last'.called
         /\ last'.id \notin DOMAIN folders)
          => last'.err = FolderNotFound /\ folders' = folders /\ requests' = requests
     /\ (/\ last'.op \in {"updateRequest", "deleteRequest"}
         /\ last'.called
         /\ last'.id \notin DOMAIN requests)
          => last'.err = RequestNotFound /\ folders' = folders /\ requests' = requests]_vars

C6_Witness ==
  /\ last.op = "updateFolder"
  /\ last.called
  /\ last.err = FolderNotFound
  /\ DOMAIN folders # {}
  /\ DOMAIN requests # {}

\* C7: getFolder(id) / getRequest(id) fails with the not-found error of its
\* kind exactly when no row has that id, and otherwise returns the stored row.
C7_GetFindsExactlyStoredRows ==
  /\ (last.op = "getFolder" /\ last.called) =>
       /\ last.err = FolderNotFound <=> last.id \notin DOMAIN folders
       /\ last.id \in DOMAIN folders =>
            /\ last.err = NoError
            /\ last.out.id = last.id
            /\ last.out.name = folders[last.id].name
            /\ last.out.parent_id = folders[last.id].parent_id
            /\ last.out.created_at = folders[last.id].created_at
            /\ last.out.updated_at = folders[last.id].updated_at
  /\ (last.op = "getRequest" /\ last.called) =>
       /\ last.err = RequestNotFound <=> last.id \notin DOMAIN requests
       /\ last.id \in DOMAIN requests =>
            /\ last.err = NoError
            /\ last.out.id = last.id
            /\ last.out.name = requests[last.id].name
            /\ last.out.folder_id = requests[last.id].folder_id
            /\ last.out.method = requests[last.id].method
            /\ last.out.url = requests[last.id].url
            /\ last.out.body = requests[last.id].body
            /\ last.out.created_at = requests[last.id].created_at
            /\ last.out.updated_at = requests[last.id].updated_at

\* A get of an id that was assigned and has been deleted since.
C7_Witness ==
  /\ last.op = "getFolder"
  /\ last.called
  /\ last.err = FolderNotFound
  /\ last.id <= sqlite_sequence.folders
  /\ DOMAIN folders # {}

\* C8: every folder and every request has created_at <= updated_at, and no
\* update changes the created_at of a row.
TimestampsOrdered ==
  /\ \A id \in DOMAIN folders : folders[id].created_at <= folders[id].updated_at
  /\ \A id \in DOMAIN requests : requests[id].created_at <= requests[id].updated_at

CreatedAtKept ==
  /\ \A id \in DOMAIN folders \cap DOMAIN folders' :
       folders'[id].created_at = folders[id].created_at
  /\ \A id \in DOMAIN requests \cap DOMAIN requests' :
       requests'[id].created_at = requests[id].created_at

C8_CreatedAtFixedAndNotAfterUpdatedAt ==
  [](TimestampsOrdered) /\ [][CreatedAtKept]_vars

\* A folder and a request, each updated in a later second than it was created.
C8_Witness ==
  /\ last.op \in {"updateFolder", "updateRequest"}
  /\ last.called
  /\ last.err = NoError
  /\ \E id \in DOMAIN folders : folders[id].created_at < folders[id].updated_at
  /\ \E id \in DOMAIN requests : requests[id].created_at < requests[id].updated_at

\* The headers getRequest returns for the stored request id.
ReadHeaders(id) == GetRequest(DB, id, ZeroRequest).out.headers

IsEmptyHeaders(h) == h.isNil \/ DOMAIN h.m = {}

\* C9: whatever headers a request was written with (absent, empty or
\* populated), getRequest and listRequests return it with headers that are a
\* mapping, never nil; absent and empty headers read back as the empty mapping.
C9_HeadersNeverNil ==
  /\ \A id \in DOMAIN requests :
       /\ GetRequest(DB, id, ZeroRequest).err = NoError
       /\ ~ReadHeaders(id).isNil
  /\ (last.op \in {"getRequest", "createRequest"} /\ last.called /\ last.err = NoError)
       => ~last.out.headers.isNil
  /\ (last.op = "getRequests" /\ last.called) =>
       /\ last.err = NoError
       /\ \A i \in DOMAIN last.out.elems : ~last.out.elems[i].headers.isNil
  /\ (/\ last.op \in {"createRequest", "updateRequest"}
      /\ last.called
      /\ last.err = NoError
      /\ IsEmptyHeaders(last.arg.headers))
       => ReadHeaders(last.id) = MakeMap

\* A request written with absent (nil) headers, read back.
C9_Witness ==
  /\ last.op = "createRequest"
  /\ last.called
  /\ last.err = NoError
  /\ last.arg.headers.isNil
  /\ last.out.headers = MakeMap

\* C10: createRequest or updateRequest with headers h, then getRequest of the
\* same id, returns a mapping with exactly the keys and values of h.
C10_HeadersRoundTrip ==
  (/\ last.op \in {"createRequest", "updateRequest"}
   /\ last.called
   /\ last.err = NoError
   /\ ~last.arg.headers.isNil)
    => /\ ReadHeaders(last.id).m = last.arg.headers.m
       /\ last.op = "createRequest" => last.out.headers.m = last.arg.headers.m

\* An update that wrote two headers whose values need escaping.
C10_Witness ==
  /\ last.op = "updateRequest"
  /\ last.called
  /\ last.err = NoError
  /\ DOMAIN last.arg.headers.m = {<<"a">>, <<RuneError>>}
  /\ last.arg.headers.m[<<"a">>] = <<"\"">>
  /\ last.arg.headers.m[<<RuneError>>] = <<RuneError, "\\">>

\* The store answered the last call, a call of op, without an error.
Answered(op) == last.op = op /\ last.called /\ last.err = NoError

\* C11: listFolders returns every stored folder exactly once, ordered by name
\* ascending: of two adjacent results the first one's name is not after the
\* second one's.
C11_ListFoldersSortedByName ==
  Answered("getFolders") =>
    LET elems == last.out.elems
    IN /\ {elems[i].id : i \in DOMAIN elems} = DOMAIN folders
       /\ Len(elems) = Cardinality(DOMAIN folders)
       /\ \A i \in DOMAIN elems :
            elems[i] = GetFolder(DB, elems[i].id, ZeroFolder).out
       /\ \A i \in 1..(Len(elems) - 1) :
            NameIndex(elems[i].name) <= NameIndex(elems[i + 1].name)

\* Two folders listed, the one created last first because of its name.
C11_Witness ==
  /\ Answered("getFolders")
  /\ Len(last.out.elems) = 2
  /\ last.out.elems[1].id > last.out.elems[2].id
  /\ last.out.elems[1].name = "B"
  /\ last.out.elems[2].name = "a"

\* The last call created or updated a request, which the store still holds.
Touched ==
  /\ last.op \in {"createRequest", "updateRequest"}
  /\ last.called
  /\ last.err = NoError
  /\ last.id \in DOMAIN requests

\* The step is a listRequests that the store answered.
Listed == last'.op = "getRequests" /\ last'.called /\ last'.err = NoError

ListedByUpdatedAt ==
  Answered("getRequests") =>
    LET elems == last.out.elems
    IN /\ {elems[i].id : i \in DOMAIN elems} = DOMAIN requests
       /\ Len(elems) = Cardinality(DOMAIN requests)
       /\ \A i \in DOMAIN elems :
            elems[i] = GetRequest(DB, elems[i].id, ZeroRequest).out
       /\ \A i \in 1..(Len(elems) - 1) :
            elems[i].updated_at >= elems[i + 1].updated_at

\* In a list taken right after a request was touched, every request that
\* comes before the touched one has the same updated_at as it.
TouchedBeforeOlder ==
  Touched /\ Listed =>
    LET elems == last'.out.elems
    IN \A i, j \in DOMAIN elems :
         i < j /\ elems[j].id = last.id => elems[i].updated_at = elems[j].updated_at

C13_EmptyListIsNotNil ==
  /\ Answered("getFolders") /\ DOMAIN folders = {} =>
        /\ ~last.out.isNil /\ last.out.elems = <<>>
        /\ last.body = [type |-> "array", value |-> <<>>]
  /\ Answered("getRequests") /\ DOMAIN requests = {} =>
        /\ ~last.out.isNil /\ last.out.elems = <<>>
        /\ last.body = [type |-> "array", value |-> <<>>]

\* The step is the return of a WithTx whose fn was run.
TxReturns == tx.open /\ ~tx'.open

Visible(d) == folders' = d.folders /\ requests' = d.requests /\ sqlite_sequence' = d.seq

\* fn returned an error: nothing fn executed is visible and WithTx returns
\* that error.
TxRolledBack ==
  TxReturns /\ last'.arg.fn # NoError => Visible(DB) /\ last'.err = last'.arg.fn

\* C14, as stated: when fn returns an error none of its statements is visible
\* afterwards and WithTx returns that error; when fn returns no error all of
\* its statements are committed and visible.
C14_WithTxAllOrNothing ==
  [][/\ TxRolledBack
     /\ TxReturns /\ last'.arg.fn = NoError => Visible(tx.db) /\ last'.err = NoError]_vars

\* C14, amended: when fn returns an error none of its statements is visible
\* afterwards and WithTx returns that error; when fn returns no error WithTx
\* commits, and either the commit succeeds, WithTx returns no error and all
\* the statements are visible, or the commit fails, WithTx returns the error
\* of the commit and none of the statements is visible.
C14_WithTxCommitsOrReportsFailure ==
  [][/\ TxRolledBack
     /\ TxReturns /\ last'.arg.fn = NoError =>
          \/ last'.err = NoError /\ Visible(tx.db)
          \/ last'.err = CommitFailed /\ Visible(DB)]_vars

\* A WithTx has returned the error of its fn, which had inserted folders
\* next to one stored before: that one is all the store holds.
C14_Witness ==
  /\ last.op = "withTx"
  /\ last.arg.fn = ErrTxDone
  /\ last.arg.stmts > 0
  /\ last.err = ErrTxDone
  /\ DOMAIN folders = {1}
  /\ sqlite_sequence.folders = 1

\* C15: of two concurrent createFolder calls both succeed, with distinct ids,
\* each id greater than every id assigned before the call began, and each
\* call returns the record of its own name and parent_id, which is the row
\* stored under its id.
C15_ConcurrentCreatesKeepApart ==
  /\ \A g \in Goroutines :
       calls[g].pc = "done" =>
         /\ calls[g].err = NoError
         /\ calls[g].folder.id > calls[g].before
         /\ calls[g].folder.name = calls[g].arg.name
         /\ calls[g].folder.parent_id = calls[g].arg.parent_id
         /\ calls[g].folder = GetFolder(DB, calls[g].folder.id, ZeroFolder).out
  /\ \A g, h \in Goroutines :
       g # h /\ calls[g].pc = "done" /\ calls[h].pc = "done" =>
         calls[g].folder.id # calls[h].folder.id

\* Two calls of different names that began before either inserted have both
\* returned.
C15_Witness ==
  /\ calls[1].pc = "done" /\ calls[2].pc = "done"
  /\ calls[1].before = 0 /\ calls[2].before = 0
  /\ calls[1].folder.id = 1 /\ calls[2].folder.id = 2
  /\ calls[1].arg.name # calls[2].arg.name

\* ProxyRequest has run and returned a result.
Proxied == last.op = "proxyRequest" /\ last.called /\ last.err = NoError

\* Two header names that differ at most in the case of their letters.
SameName(a, b) ==
  Len(a) = Len(b) /\ \A i \in DOMAIN a : toLower(a[i]) = toLower(b[i])

\* The values the request sent carries for the header key.
Outbound(key) ==
  UNION {{last.out.header[name][i] : i \in DOMAIN last.out.header[name]} :
           name \in {n \in DOMAIN last.out.header : SameName(n, key)}}

\* C16: execute applies every entry of headers to the outbound call: for each
\* key and value of headers the request sent carries a header of that name
\* with that value, whatever the keys, keys that differ in letter case only
\* included.
C16_EveryHeaderApplied ==
  Proxied =>
    \A key \in DOMAIN last.arg.req.Headers.m :
      last.arg.req.Headers.m[key] \in Outbound(key)

\* The entries of headers the caller supplied for Content-Type.
Supplied == {key \in DOMAIN last.arg.req.Headers.m : SameName(key, ContentType)}

\* C17: the outbound Content-Type is application/json exactly when body is
\* not empty and the caller supplied no Content-Type; when the caller
\* supplied one, in any letter case and of any value, the outbound value is
\* the supplied one; when body is empty none is added.
C17_ContentTypeDefaulted ==
  Proxied =>
    IF Supplied # {}
    THEN Outbound(ContentType) \subseteq {last.arg.req.Headers.m[key] : key \in Supplied}
           /\ Outbound(ContentType) # {}
    ELSE IF last.arg.req.Body # ""
    THEN Outbound(ContentType) = {ApplicationJSON}
    ELSE Outbound(ContentType) = {}

\* The place before the first character of the i-th of values in their join.
RECURSIVE Offset(_, _)
Offset(values, i) ==
  IF i = 1 THEN 0 ELSE Offset(values, i - 1) + Len(values[i - 1]) + 2

\* str is values joined: every value at its place, in order, a comma and a
\* space between two of them, and nothing else.
Joined(values, str) ==
  /\ Len(str) = Offset(values, Len(values)) + Len(values[Len(values)])
  /\ \A i \in DOMAIN values :
       \A p \in DOMAIN values[i] : str[Offset(values, i) + p] = values[i][p]
  /\ \A i \in 1..(Len(values) - 1) :
       /\ str[Offset(values, i) + Len(values[i]) + 1] = ","
       /\ str[Offset(values, i) + Len(values[i]) + 2] = " "

\* C18: in the result of execute each header name of the response maps to
\* the string made of all the values of that header, in the order received,
\* joined by ", "; no value is dropped and no name is missing.
C18_ResponseHeadersJoined ==
  Proxied =>
    /\ ~last.out.response.Headers.isNil
    /\ DOMAIN last.out.response.Headers.m = DOMAIN last.arg.net.final.Header
    /\ \A name \in DOMAIN last.arg.net.final.Header :
         Joined(last.arg.net.final.Header[name], last.out.response.Headers.m[name])

\* A response with two headers, one of two different values, has been
\* returned.
C18_Witness ==
  /\ Proxied
  /\ DOMAIN last.out.response.Headers.m = {SetCookie, XTrace}
  /\ last.arg.net.final.Header[SetCookie] = <<<<"b">>, <<"a">>>>
  /\ last.out.response.Headers.m[SetCookie] = <<"b", ",", " ", "a">>

\* ProxyRequest has run on a request that could be built.
Ran == last.op = "proxyRequest" /\ last.called /\ last.err # InvalidMethod

\* Nothing fails in the exchange.
Sound == last.arg.net.failAt = 0 /\ ~last.arg.net.readFails

\* The result is the final response of the chain.
FinalReturned ==
  /\ last.err = NoError
  /\ last.out.response.StatusCode = last.arg.net.final.StatusCode
  /\ last.out.response.Headers.m = CopyHeaders(last.arg.net.final.Header)
  /\ last.out.response.Body = last.arg.net.final.Body
  /\ last.out.sent = last.arg.net.hops + 1

\* C19, as stated: for a chain of redirects of any length that ends in a
\* response that is no redirect, execute succeeds and its status_code,
\* headers and body are those of the final response.
C19_RedirectsFollowed ==
  Ran /\ Sound => FinalReturned

\* C19, amended: execute follows a chain of at most 9 redirects to the final
\* response, whose status_code, headers and body it returns; on the tenth
\* redirect in a row it fails with "stopped after 10 redirects", ten requests
\* sent, and returns no result.
C19_RedirectsFollowedUpToNine ==
  Ran /\ Sound =>
    IF last.arg.net.hops <= 9
    THEN FinalReturned
    ELSE /\ last.err = StoppedAfter10
         /\ last.out.response = NoValue
         /\ last.out.sent = 10

\* A chain of nine redirects has been followed to its final response.
C19_Witness ==
  /\ Ran /\ Sound
  /\ last.arg.net.hops = 9
  /\ last.out.sent = 10
  /\ last.out.response.StatusCode = 200
  /\ last.out.response.Body = "ok"

\* C20: each execute call makes a single attempt: when a request of the
\* exchange fails, execute returns that failure and sends no request after
\* the failed one; no failure, of a request or of the reading of the body,
\* becomes a result.
C20_SingleAttempt ==
  Ran =>
    /\ last.arg.net.failAt # 0 =>
         /\ last.err # NoError
         /\ last.out.sent <= last.arg.net.failAt
         /\ last.out.sent = last.arg.net.failAt => last.err = last.arg.net.failure
    /\ last.arg.net.readFails => last.err # NoError
    /\ last.err # NoError => last.out.response = NoValue

\* The connection of the third request of a chain was reset, and execute has
\* returned that error, three requests sent.
C20_Witness ==
  /\ Ran
  /\ last.arg.net.failAt = 3
  /\ last.arg.net.hops >= 3
  /\ last.err = ConnectionReset
  /\ last.out.sent = 3
  /\ last.out.response = NoValue

\* The seconds the exchange of the last call takes from its first request to
\* the end of its body, were it left to complete.
ExchangeTime == (last.arg.net.hops + 1) * last.arg.net.latency + last.arg.net.reading

\* C21: every execute call is bounded by the timeout of 30 seconds, which
\* covers the requests, the redirects and the reading of the body: a call
\* whose exchange has not completed when the timer fires fails and returns no
\* result, no request is sent after the timer fired, and the request cannot
\* change the timeout.
C21_BoundedByTimeout ==
  Ran =>
    /\ ExchangeTime > 30 =>
         /\ last.err \in {Timeout, TimeoutReading}
         /\ last.out.response = NoValue
    /\ (last.out.sent - 1) * last.arg.net.latency <= 30
    /\ last.err = NoError => last.out.response.Duration <= 30 * 1000

\* A call whose body would have been read 34 seconds after the first request
\* was sent has failed on the timeout, whatever the header of the request.
C21_Witness ==
  /\ Ran
  /\ TimeoutHeader \in DOMAIN last.arg.req.Headers.m
  /\ last.arg.net.hops = 1
  /\ last.arg.net.latency = 7
  /\ last.arg.net.reading = 20
  /\ last.err = TimeoutReading
  /\ last.out.sent = 2

\* handleProxyRequest has answered.
Handled == last.op = "handleProxyRequest" /\ last.status # 0

\* str begins with the characters of prefix.
Begins(str, prefix) == \A i \in DOMAIN prefix : i \in DOMAIN str /\ str[i] = prefix[i]

HasScheme(url) ==
  Begins(url, <<"h", "t", "t", "p", ":", "/", "/">>) \/ Begins(url, <<"h", "t", "t", "p", "s", ":", "/", "/">>)

\* C22: validateURL returns "URL is required" iff url is empty, "URL must
\* start with http:// or https://" iff url is not empty and begins with
\* neither prefix in lower case, and no error in every other case.
C22_ValidateURL ==
  Handled /\ ~last.arg.body.malformed =>
    LET url == last.arg.body.req.URL
    IN /\ ValidateURL(url) = URLRequired <=> url = <<>>
       /\ ValidateURL(url) = URLScheme <=> url # <<>> /\ ~HasScheme(url)
       /\ ValidateURL(url) = NoError <=> HasScheme(url)
       /\ ValidateURL(url) # NoError =>
            /\ last.status = StatusBadRequest
            /\ last.body = ErrorJSON(ValidateURL(url))

\* A URL whose scheme is in capital letters has been refused.
C22_Witness ==
  /\ Handled
  /\ ~last.arg.body.malformed
  /\ last.arg.body.req.URL = <<"H", "T", "T", "P", ":", "/", "/", "x">>
  /\ last.status = StatusBadRequest
  /\ last.body = ErrorJSON(URLScheme)

\* The methods of the whitelist, in whatever case.
Whitelisted(method) ==
  \E i \in DOMAIN ValidMethods :
    /\ Len(method) = Len(ValidMethods[i])
    /\ \A k \in DOMAIN method : toUpper(method[k]) = ValidMethods[i][k]

\* C23: validateMethod returns no error iff the method in upper case is one
\* of GET, POST, PUT, DELETE, PATCH, HEAD, OPTIONS; for every other input, the
\* empty one included, it fails with "invalid HTTP method: " followed by the
\* method that was given.
C23_ValidateMethod ==
  Handled /\ ~last.arg.body.malformed =>
    LET method == last.arg.body.req.Method
    IN /\ ValidateMethod(method) = NoError <=> Whitelisted(method)
       /\ ~Whitelisted(method) =>
            ValidateMethod(method) = <<"invalid HTTP method: ">> \o method

\* C24: the proxy client is invoked only when validateURL and validateMethod
\* have both succeeded on the bound request; when the body does not bind or
\* a validation fails the response is 400 and no request is sent.
C24_ValidatedBeforeExecuted ==
  Handled =>
    LET Valid == /\ ~last.arg.body.malformed
                 /\ HasScheme(last.arg.body.req.URL)
                 /\ Whitelisted(last.arg.body.req.Method)
    IN /\ last.called <=> Valid
       /\ ~Valid => last.status = StatusBadRequest /\ last.out.sent = 0
       /\ last.out.sent > 0 => Valid

\* A request with a good URL and a method outside the whitelist has been
\* answered 400 without a request sent.
C24_Witness ==
  /\ Handled
  /\ ~last.arg.body.malformed
  /\ last.arg.body.req.URL = <<"h", "t", "t", "p", ":", "/", "/", "x">>
  /\ last.arg.body.req.Method = <<"T", "R", "A", "C", "E">>
  /\ last.status = StatusBadRequest
  /\ ~last.called
  /\ last.out.sent = 0

\* The middleware has answered the request, or next has.
Validated == last.op = "OriginValidator" /\ last.status # 0

\* The origin of the request as the claim defines it: the Origin header, else
\* scheme://host of the Referer, else none.
Effective ==
  IF last.arg.origin # <<>> THEN last.arg.origin
  ELSE IF last.arg.referer.text # <<>> /\ last.arg.referer.parses
  THEN last.arg.referer.scheme \o <<":", "/", "/">> \o last.arg.referer.host
  ELSE <<>>

Local ==
  {<<"h", "t", "t", "p", ":", "/", "/", "l", "o", "c", "a", "l", "h", "o", "s", "t", ":">> \o last.arg.port,
   <<"h", "t", "t", "p", ":", "/", "/", "1", "2", "7", ".", "0", ".", "0", ".", "1", ":">> \o last.arg.port,
   <<"h", "t", "t", "p", ":", "/", "/", "[", ":", ":", "1", "]", ":">> \o last.arg.port}

\* C25: for a path that is /api or begins with /api/ the next handler runs
\* iff the effective origin is empty or one of http://localhost:port,
\* http://127.0.0.1:port, http://[::1]:port; otherwise the response is 403
\* with the body {"messages":["Forbidden: Invalid origin"]} and next is not
\* run.  For every other path next runs.
C25_OriginValidator ==
  Validated =>
    IF last.arg.path = <<"/", "a", "p", "i">> \/ Begins(last.arg.path, <<"/", "a", "p", "i", "/">>)
    THEN /\ last.called <=> (Effective = <<>> \/ Effective \in Local)
         /\ ~last.called =>
              /\ last.status = 403
              /\ last.body = [type |-> "object",
                               value |-> [messages |-> <<"Forbidden: Invalid origin">>]]
    ELSE last.called

\* A request to /api/requests without Origin, sent from a page of another
\* site, has been refused.
C25_Witness ==
  /\ Validated
  /\ last.arg.path = <<"/", "a", "p", "i", "/", "r", "e", "q", "u", "e", "s", "t", "s">>
  /\ last.arg.origin = <<>>
  /\ last.arg.referer.text = <<"h", "t", "t", "p", ":", "/", "/", "e", "v", "i", "l", ".", "c", "o", "m", "/", "x">>
  /\ last.status = 403
  /\ ~last.called

\* C26: every non-null request.folder_id and every non-null folder.parent_id
\* is the id of a folder the store holds.
C26_ReferentialIntegrity ==
  /\ \A r \in DOMAIN requests :
       requests[r].folder_id # NULL => requests[r].folder_id \in DOMAIN folders
  /\ \A f \in DOMAIN folders :
       folders[f].parent_id # NULL => folders[f].parent_id \in DOMAIN folders

\* C27: a createFolder whose insert succeeded returns without error the
\* record it inserted, under the new row's id and with the name and parent_id
\* it was called with, whatever update or delete of that id runs between its
\* insert and its re-read.
C27_CreateReturnsInsertedRecord ==
  \A g \in Goroutines :
    (calls[g].pc = "done" /\ calls[g].folder.id # 0) =>
      /\ calls[g].err = NoError
      /\ calls[g].folder.id > calls[g].before
      /\ calls[g].folder.name = calls[g].arg.name
      /\ calls[g].folder.parent_id = calls[g].arg.parent_id

\* A call of op on the row id has just returned from the store.
Acted(op, id) == last.op = op /\ last.called /\ last.id = id

\* C28: ids are never reused.  An id that was the id of a stored row and is
\* no more is never again the id of a stored row; the id a create returns is
\* not below any id that has been assigned (so, with the former, strictly
\* above every id assigned before); and from a state where the row of a once
\* assigned id is gone, get, update and delete of that id fail with not-found.
C28_IdsNeverReused ==
  /\ \A id \in 1..MaxIds :
       [](id \in DOMAIN folders =>
            [](id \notin DOMAIN folders => [](id \notin DOMAIN folders)))
  /\ \A id \in 1..MaxIds :
       [](id \in DOMAIN requests =>
            [](id \notin DOMAIN requests => [](id \notin DOMAIN requests)))
  /\ \A id \in 1..MaxIds :
       [](id \in DOMAIN folders =>
            [](\A created \in 1..MaxIds :
                 Acted("createFolder", created) /\ last.err = NoError => created >= id))
  /\ \A id \in 1..MaxIds :
       [](id \in DOMAIN requests =>
            [](\A created \in 1..MaxIds :
                 Acted("createRequest", created) /\ last.err = NoError => created >= id))
  /\ [][\A id \in 1..MaxIds :
          /\ (/\ id \notin DOMAIN folders
              /\ \E op \in {"getFolder", "updateFolder", "deleteFolder"} : Acted(op, id)')
               => last'.err = FolderNotFound
          /\ (/\ id \notin DOMAIN requests
              /\ \E op \in {"getRequest", "updateRequest", "deleteRequest"} : Acted(op, id)')
               => last'.err = RequestNotFound]_vars

\* Folder 1 was created and deleted, the next folder created has the id 2,
\* and a later get of folder 1 has failed.
C28_Witness ==
  /\ DOMAIN folders = {2}
  /\ sqlite_sequence.folders = 2
  /\ Acted("getFolder", 1)
  /\ last.err = FolderNotFound

\* The folder reached from x by following parent_id n times, NULL when the
\* chain ends before (at a folder without parent, or at an id that is not
\* stored).
RECURSIVE Up(_, _)
Up(x, n) ==
  IF n = 0 THEN x
  ELSE IF x = NULL \/ x \notin DOMAIN folders THEN NULL
  ELSE Up(folders[x].parent_id, n - 1)

\* C29: the folders form a forest: no folder is reached from itself by
\* following parent_id.
C29_FoldersFormAForest ==
  \A f \in DOMAIN folders :
    \A n \in 1..Cardinality(DOMAIN folders) : Up(f, n) # f

\* C30: a successful PUT on /api/requests/:id or /api/folders/:id leaves in
\* the row of the path id exactly what the body supplies, a member the body
\* omits stored as the empty string, NULL or {}; the id of the body is not
\* used, and no other row changes.
C30_UpdateReplacesRow ==
  [][/\ \A id \in 1..MaxReplaced, u \in RequestReplacements :
          (handleUpdateRequestByID(Digits[id], u.body, 0) /\ last'.err = NoError) =>
            /\ DOMAIN requests' = DOMAIN requests
            /\ \A c \in DOMAIN u.row : requests'[id][c] = u.row[c]
            /\ \A x \in DOMAIN requests \ {id} : requests'[x] = requests[x]
            /\ folders' = folders
     /\ \A id \in 1..MaxReplaced, u \in FolderReplacements :
          (handleUpdateFolderByID(Digits[id], u.body, 0) /\ last'.err = NoError) =>
            /\ DOMAIN folders' = DOMAIN folders
            /\ \A c \in DOMAIN u.row : folders'[id][c] = u.row[c]
            /\ \A x \in DOMAIN folders \ {id} : folders'[x] = folders[x]
            /\ requests' = requests]_vars

\* Request 1, created with every member, has been replaced by a PUT whose
\* body supplies none, while request 2 is stored as it was created.
C30_Witness ==
  /\ last.op = "updateRequest" /\ last.called /\ last.err = NoError /\ last.id = 1
  /\ 2 \in DOMAIN requests
  /\ requests[1].name = "" /\ requests[1].method = "" /\ requests[1].url = ""
  /\ requests[1].folder_id = NULL /\ requests[1].body = ""
  /\ requests[1].headers = <<"{", "}">>
  /\ requests[2].name = "r" /\ requests[2].method = "GET"

====
